---- MODULE Spec2Model ----
(***************************************************************************)
(* Model of the Scale Render addon (PixelNormalizedRenderer): resolution   *)
(* calculation, dimension / resolution validation, the camera solver and   *)
(* the Eval / Render All operators.                                        *)
(*                                                                         *)
(* Python floats are modelled in fixed point:                              *)
(*   lengths in Blender units   : ticks, TickPerBU ticks per unit          *)
(*   lengths in millimetres     : MmUnit steps per millimetre              *)
(*   scale_factor (px / mm)     : SfUnit steps per px/mm                   *)
(*   unit_settings.scale_length : UsUnit steps per 1.0                     *)
(*   ratios, sin, cos, tan      : FP steps per 1.0                         *)
(*   angles                     : RadUnit steps per radian                 *)
(***************************************************************************)
EXTENDS Integers, Sequences, FiniteSets, TLC

TickPerBU == 10000
MmUnit == 100
SfUnit == 10
UsUnit == 10
FP == 10000
RadUnit == 100000

\* core.py constants
FOCAL_LENGTH == 85
SENSOR_WIDTH == 36
MAX_RESOLUTION == 16384
mm_per_meter == 1000
max_iterations == 20

(***************************************************************************)
(* Bounds of the model.                                                    *)
(***************************************************************************)
MaxParts == 2

(***************************************************************************)
(* Arithmetic helpers.                                                     *)
(***************************************************************************)
Abs(x) == IF x < 0 THEN -x ELSE x

Max2(a, b) == IF a >= b THEN a ELSE b

Min2(a, b) == IF a <= b THEN a ELSE b

SetMin(S) == CHOOSE m \in S : \A x \in S : m <= x

SetMax(S) == CHOOSE m \in S : \A x \in S : m >= x

\* Python int(): truncation toward zero of the quotient n / d (d > 0)
IntTrunc(n, d) == IF n >= 0 THEN n \div d ELSE -((-n) \div d)

\* Quotient rounded to the nearest step (d > 0): a float result stored in fixed point
RoundDiv(n, d) == IF n >= 0 THEN (2 * n + d) \div (2 * d) ELSE -((2 * (-n) + d) \div (2 * d))

(***************************************************************************)
(* Scene objects.  A part carries its type, its name (a sequence of        *)
(* characters) and world_corners, the 8 corners matrix_world @ bound_box.  *)
(***************************************************************************)
Box(lo, hi) ==
    << <<lo[1], lo[2], lo[3]>>, <<lo[1], lo[2], hi[3]>>,
       <<lo[1], hi[2], hi[3]>>, <<lo[1], hi[2], lo[3]>>,
       <<hi[1], lo[2], lo[3]>>, <<hi[1], lo[2], hi[3]>>,
       <<hi[1], hi[2], hi[3]>>, <<hi[1], hi[2], lo[3]>> >>

Part(type, name, lo, hi) ==
    [type |-> type, name |-> name, world_corners |-> Box(lo, hi)]

StartsWith(name, prefix) ==
    /\ Len(prefix) <= Len(name)
    /\ SubSeq(name, 1, Len(prefix)) = prefix

None == "None"

\* a mutant: helper meshes (names starting with "_") are not skipped
RECURSIVE EligibleFrom_nohelper(_, _)
EligibleFrom_nohelper(objects, i) ==
    IF i > Len(objects) THEN << >>
    ELSE IF objects[i].type # "MESH" THEN EligibleFrom_nohelper(objects, i + 1)
    ELSE <<objects[i]>> \o EligibleFrom_nohelper(objects, i + 1)

\* a mutant: objects that are not meshes are not skipped
RECURSIVE EligibleFrom_anytype(_, _)
EligibleFrom_anytype(objects, i) ==
    IF i > Len(objects) THEN << >>
    ELSE IF StartsWith(objects[i].name, <<"_">>) THEN EligibleFrom_anytype(objects, i + 1)
    ELSE <<objects[i]>> \o EligibleFrom_anytype(objects, i + 1)

\* core.py get_collection_bounds: objects is collection.objects in order
RECURSIVE EligibleFrom(_, _)
EligibleFrom(objects, i) ==
    IF i > Len(objects) THEN << >>
    ELSE IF objects[i].type # "MESH" THEN EligibleFrom(objects, i + 1)
    ELSE IF StartsWith(objects[i].name, <<"_">>) THEN EligibleFrom(objects, i + 1)
    ELSE <<objects[i]>> \o EligibleFrom(objects, i + 1)

RECURSIVE AllCornersOf(_, _)
AllCornersOf(mesh_objects, i) ==
    IF i > Len(mesh_objects) THEN << >>
    ELSE mesh_objects[i].world_corners \o AllCornersOf(mesh_objects, i + 1)

\* the coordinates of all_corners on one axis
AxisOf(all_corners, axis) == {all_corners[k][axis] : k \in 1..Len(all_corners)}

\* a mutant: only the corners of the first mesh are looked at
BoundsOfCorners_firstpart(mesh_objects, all_corners) ==
    IF all_corners = << >>
    THEN [min_corner |-> None, max_corner |-> None, mesh_objects |-> << >>]
    ELSE [min_corner |-> <<SetMin(AxisOf(SubSeq(all_corners, 1, 8), 1)),
                           SetMin(AxisOf(SubSeq(all_corners, 1, 8), 2)),
                           SetMin(AxisOf(SubSeq(all_corners, 1, 8), 3))>>,
          max_corner |-> <<SetMax(AxisOf(SubSeq(all_corners, 1, 8), 1)),
                           SetMax(AxisOf(SubSeq(all_corners, 1, 8), 2)),
                           SetMax(AxisOf(SubSeq(all_corners, 1, 8), 3))>>,
          mesh_objects |-> mesh_objects]

\* lines 348-363: the extremes of all_corners
BoundsOfCorners(mesh_objects, all_corners) ==
    IF all_corners = << >>
    THEN [min_corner |-> None, max_corner |-> None, mesh_objects |-> << >>]
    ELSE [min_corner |-> <<SetMin(AxisOf(all_corners, 1)), SetMin(AxisOf(all_corners, 2)),
                           SetMin(AxisOf(all_corners, 3))>>,
          max_corner |-> <<SetMax(AxisOf(all_corners, 1)), SetMax(AxisOf(all_corners, 2)),
                           SetMax(AxisOf(all_corners, 3))>>,
          mesh_objects |-> mesh_objects]

\* lines 341-346: the world corners of every mesh of mesh_objects
BoundsOfMeshes(mesh_objects) == BoundsOfCorners(mesh_objects, AllCornersOf(mesh_objects, 1))

get_collection_bounds(objects) == BoundsOfMeshes(EligibleFrom(objects, 1))

\* core.py get_collection_dimensions: (width, height, depth) in millimetres
ToMm == (mm_per_meter * MmUnit) \div (TickPerBU * UsUnit)

\* lines 381-398 for the bounds b: width on X, height on Z, depth on Y
DimensionsOfBounds(b, unit_scale) ==
    IF b.min_corner = None THEN <<0, 0, 0>>
    ELSE <<(b.max_corner[1] - b.min_corner[1]) * unit_scale * ToMm,
           (b.max_corner[3] - b.min_corner[3]) * unit_scale * ToMm,
           (b.max_corner[2] - b.min_corner[2]) * unit_scale * ToMm>>

get_collection_dimensions(objects, unit_scale) ==
    DimensionsOfBounds(get_collection_bounds(objects), unit_scale)

\* a mutant: the origin is returned for a group without eligible geometry
CenterOfBounds_origin(b) ==
    IF b.min_corner = None THEN <<0, 0, 0>>
    ELSE <<RoundDiv(b.max_corner[1] + b.min_corner[1], 2),
           RoundDiv(b.max_corner[2] + b.min_corner[2], 2),
           RoundDiv(b.max_corner[3] + b.min_corner[3], 2)>>

\* core.py get_collection_center (coordinates in half ticks would lose nothing;
\* the division by 2 is rounded to the tick)
CenterOfBounds(b) ==
    IF b.min_corner = None THEN None
    ELSE <<RoundDiv(b.max_corner[1] + b.min_corner[1], 2),
           RoundDiv(b.max_corner[2] + b.min_corner[2], 2),
           RoundDiv(b.max_corner[3] + b.min_corner[3], 2)>>

get_collection_center(objects) == CenterOfBounds(get_collection_bounds(objects))

\* core.py get_primary_object: the name of the object returned, or None
RECURSIVE PrimaryFrom(_, _)
PrimaryFrom(objects, i) ==
    IF i > Len(objects) THEN None
    ELSE IF objects[i].type # "MESH" THEN PrimaryFrom(objects, i + 1)
    ELSE IF StartsWith(objects[i].name, <<"_">>) THEN PrimaryFrom(objects, i + 1)
    ELSE objects[i].name

get_primary_object(objects) == PrimaryFrom(objects, 1)

(***************************************************************************)
(* Resolution calculator and validation layer.                             *)
(***************************************************************************)
\* a mutant: the product is rounded to the nearest pixel instead of truncated
calculate_resolution_rounded(width_mm, height_mm, scale_factor, padding_px) ==
    <<RoundDiv(width_mm * scale_factor, MmUnit * SfUnit) + (padding_px * 2),
      RoundDiv(height_mm * scale_factor, MmUnit * SfUnit) + (padding_px * 2)>>

\* a mutant: the padding is taken off instead of added
calculate_resolution_padneg(width_mm, height_mm, scale_factor, padding_px) ==
    <<IntTrunc(width_mm * scale_factor, MmUnit * SfUnit) - (padding_px * 2),
      IntTrunc(height_mm * scale_factor, MmUnit * SfUnit) - (padding_px * 2)>>

calculate_resolution(width_mm, height_mm, scale_factor, padding_px) ==
    <<IntTrunc(width_mm * scale_factor, MmUnit * SfUnit) + (padding_px * 2),
      IntTrunc(height_mm * scale_factor, MmUnit * SfUnit) + (padding_px * 2)>>

\* calculate_resolution(width, height, ...) for dims = (width, height, depth)
ResolutionOfDims(dims, scale_factor, padding_px) ==
    calculate_resolution(dims[1], dims[2], scale_factor, padding_px)

\* a mutant: the too-small test also looks at the depth
ValidateDims_depth(width, height, depth) ==
    IF width <= 0 \/ height <= 0 \/ depth <= 0 THEN <<FALSE, "invalid_dimensions">>
    ELSE IF width < 1 * MmUnit \/ height < 1 * MmUnit \/ depth < 1 * MmUnit THEN <<FALSE, "too_small">>
    ELSE IF width > 10000 * MmUnit \/ height > 10000 * MmUnit \/ depth > 10000 * MmUnit
         THEN <<FALSE, "too_large">>
    ELSE <<TRUE, "">>

\* core.py validate_collection_dimensions, after get_collection_dimensions
ValidateDims(width, height, depth) ==
    IF width <= 0 \/ height <= 0 \/ depth <= 0 THEN <<FALSE, "invalid_dimensions">>
    ELSE IF width < 1 * MmUnit \/ height < 1 * MmUnit THEN <<FALSE, "too_small">>
    ELSE IF width > 10000 * MmUnit \/ height > 10000 * MmUnit \/ depth > 10000 * MmUnit
         THEN <<FALSE, "too_large">>
    ELSE <<TRUE, "">>

ValidateDimsOf(dims) == ValidateDims(dims[1], dims[2], dims[3])

validate_collection_dimensions(objects, unit_scale) ==
    ValidateDimsOf(get_collection_dimensions(objects, unit_scale))

\* a mutant: the too-small test comes first
validate_resolution_smallfirst(width_px, height_px) ==
    IF width_px < 1 \/ height_px < 1 THEN <<FALSE, "resolution_too_small">>
    ELSE IF width_px > MAX_RESOLUTION \/ height_px > MAX_RESOLUTION
         THEN <<FALSE, "resolution_too_large">>
    ELSE IF width_px > 8192 \/ height_px > 8192 THEN <<TRUE, "warning_large_resolution">>
    ELSE <<TRUE, "">>

validate_resolution(width_px, height_px) ==
    IF width_px > MAX_RESOLUTION \/ height_px > MAX_RESOLUTION
    THEN <<FALSE, "resolution_too_large">>
    ELSE IF width_px < 1 \/ height_px < 1 THEN <<FALSE, "resolution_too_small">>
    ELSE IF width_px > 8192 \/ height_px > 8192 THEN <<TRUE, "warning_large_resolution">>
    ELSE <<TRUE, "">>

(***************************************************************************)
(* Fixed-point forms of the math functions the camera solver calls.        *)
(***************************************************************************)
HalfPi == 157080

\* a * t / FP rounded, with a split so that the products stay in range
MulFP(a, t) == (a \div FP) * t + RoundDiv((a % FP) * t, FP)

\* a / c as a ratio in FP steps, for 0 <= a <= c and c > 0
Ratio(a, c) ==
    LET k == (c \div 20000) + 1
    IN  RoundDiv((a \div k) * FP, c \div k)

RECURSIVE SqrtIter(_, _)
SqrtIter(n, x) ==
    LET y == (x + (n \div x)) \div 2
    IN  IF y >= x THEN x ELSE SqrtIter(n, y)

ISqrt(n) == IF n = 0 THEN 0 ELSE SqrtIter(n, n)

\* atan at 0, 1/50, 2/50, ..., 1 in RadUnit steps
AtanStep == FP \div 50

AtanTable ==
    <<
       0, 2000, 3998, 5993, 7983, 9967, 11943, 13910, 15866, 17809,
       19740, 21655, 23554, 25437, 27301, 29146, 30970, 32774, 34556, 36315,
       38051, 39763, 41451, 43114, 44752, 46365, 47952, 49513, 51049, 52558,
       54042, 55500, 56931, 58337, 59718, 61073, 62402, 63707, 64987, 66243,
       67474, 68682, 69866, 71027, 72165, 73282, 74376, 75448, 76499, 77530,
       78540
    >>

\* the table value at i steps and r beyond, by linear interpolation
Interpolate(table, i, r, step) ==
    table[i + 1] + RoundDiv((table[i + 2] - table[i + 1]) * r, step)

\* math.atan of a ratio x in 0..FP
AtanUnit(x) ==
    IF x >= FP THEN HalfPi \div 2
    ELSE Interpolate(AtanTable, x \div AtanStep, x % AtanStep, AtanStep)

\* math.atan(y / x) for y >= 0, x >= 0, not both 0
AtanRatio(y, x) ==
    IF y <= x THEN AtanUnit(Ratio(y, x)) ELSE HalfPi - AtanUnit(Ratio(x, y))

\* math.atan of a ratio t >= 0 given in FP steps
Atan(t) == AtanRatio(t, FP)

\* math.atan2(y, x) for x > 0
Atan2(y, x) == (IF y >= 0 THEN 1 ELSE -1) * AtanRatio(Abs(y), x)

\* tan at 0, 0.0125, 0.0250, ... rad in FP steps
TanStep == RadUnit \div 80

TanTable ==
    <<
       0, 125, 250, 375, 500, 626, 751, 877, 1003, 1130,
       1257, 1384, 1511, 1639, 1768, 1897, 2027, 2158, 2289, 2421,
       2553, 2687, 2821, 2957, 3093, 3231, 3369, 3509, 3650, 3793,
       3936, 4081, 4228, 4376, 4526, 4677, 4831, 4986, 5143, 5302,
       5463, 5626, 5792, 5960, 6131, 6304, 6480, 6659, 6841, 7026,
       7215, 7407, 7602, 7801, 8004, 8211, 8423, 8639, 8860, 9085,
       9316, 9552, 9794, 10042
    >>

TanSmall(a) == Interpolate(TanTable, a \div TanStep, a % TanStep, TanStep)

\* math.tan of an angle 0 <= a < pi/2
Tan(a) ==
    IF a <= HalfPi \div 2 THEN TanSmall(a)
    ELSE RoundDiv(FP * FP, TanSmall(HalfPi - a))

\* math.sin and math.cos by their series (used at ELEVATION_ANGLE only)
Sin(a) ==
    LET x == RoundDiv(a * FP, RadUnit)
        x2 == MulFP(x, x)
        x3 == MulFP(x2, x)
        x5 == MulFP(x3, x2)
    IN  x - RoundDiv(x3, 6) + RoundDiv(x5, 120)

Cos(a) ==
    LET x == RoundDiv(a * FP, RadUnit)
        x2 == MulFP(x, x)
        x4 == MulFP(x2, x2)
        x6 == MulFP(x4, x2)
    IN  FP - RoundDiv(x2, 2) + RoundDiv(x4, 24) - RoundDiv(x6, 720)

\* core.py ELEVATION_ANGLE = math.radians(12)
ELEVATION_ANGLE == 20944

\* math.tan, math.cos and math.sin of ELEVATION_ANGLE (lines 205, 236)
TanElevation == Tan(ELEVATION_ANGLE)

CosElevation == Cos(ELEVATION_ANGLE)

SinElevation == Sin(ELEVATION_ANGLE)

(***************************************************************************)
(* Camera solver: core.py calculate_camera_position.                       *)
(***************************************************************************)
\* a mutant: the padding is put on Y as well
PaddedCorners_ypad(min_corner, max_corner, padding_bu) ==
    << <<min_corner[1] - padding_bu, min_corner[2] - padding_bu, min_corner[3] - padding_bu>>,
       <<max_corner[1] + padding_bu, min_corner[2] - padding_bu, min_corner[3] - padding_bu>>,
       <<min_corner[1] - padding_bu, min_corner[2] - padding_bu, max_corner[3] + padding_bu>>,
       <<max_corner[1] + padding_bu, min_corner[2] - padding_bu, max_corner[3] + padding_bu>>,
       <<min_corner[1] - padding_bu, max_corner[2] + padding_bu, min_corner[3] - padding_bu>>,
       <<max_corner[1] + padding_bu, max_corner[2] + padding_bu, min_corner[3] - padding_bu>>,
       <<min_corner[1] - padding_bu, max_corner[2] + padding_bu, max_corner[3] + padding_bu>>,
       <<max_corner[1] + padding_bu, max_corner[2] + padding_bu, max_corner[3] + padding_bu>> >>

\* the 8 corners of the bounding box with padding on X and Z
PaddedCorners(min_corner, max_corner, padding_bu) ==
    << <<min_corner[1] - padding_bu, min_corner[2], min_corner[3] - padding_bu>>,
       <<max_corner[1] + padding_bu, min_corner[2], min_corner[3] - padding_bu>>,
       <<min_corner[1] - padding_bu, min_corner[2], max_corner[3] + padding_bu>>,
       <<max_corner[1] + padding_bu, min_corner[2], max_corner[3] + padding_bu>>,
       <<min_corner[1] - padding_bu, max_corner[2], min_corner[3] - padding_bu>>,
       <<max_corner[1] + padding_bu, max_corner[2], min_corner[3] - padding_bu>>,
       <<min_corner[1] - padding_bu, max_corner[2], max_corner[3] + padding_bu>>,
       <<max_corner[1] + padding_bu, max_corner[2], max_corner[3] + padding_bu>> >>

\* padding_px / scale_factor / mm_per_meter / meters_per_bu, in ticks
PaddingBU(padding_px, scale_factor, unit_scale) ==
    LET padding_mm == RoundDiv(padding_px * SfUnit * MmUnit, scale_factor)
    IN  RoundDiv(padding_mm * ((TickPerBU * UsUnit) \div (mm_per_meter * MmUnit)), unit_scale)

\* lines 155 and 157-161: the half fields of view; the aspect ratio res_w / res_h is
\* kept as the pair of its terms
HalfFovH == Atan(RoundDiv(SENSOR_WIDTH * FP, 2 * FOCAL_LENGTH))

HalfFovV(half_fov_h, res) == Atan(RoundDiv(Tan(half_fov_h) * res[2], res[1]))

\* lines 191-192: frame size / 2 / tan(half_fov)
DistanceFor(frame_bu, half_fov) == RoundDiv(frame_bu * FP, 2 * Tan(half_fov))

\* lines 163-194 for the bounds b: the padded corners and the initial estimate
CamFrame(b, center, padding_bu, half_fov_h, half_fov_v) ==
    [min_corner |-> b.min_corner,
     max_corner |-> b.max_corner,
     center |-> center,
     half_fov_h |-> half_fov_h,
     half_fov_v |-> half_fov_v,
     bbox_corners |-> PaddedCorners(b.min_corner, b.max_corner, padding_bu),
     camera_distance |->
         Max2(DistanceFor((b.max_corner[1] - b.min_corner[1]) + (padding_bu * 2), half_fov_h),
              DistanceFor((b.max_corner[3] - b.min_corner[3]) + (padding_bu * 2), half_fov_v)),
     object_front_y |-> b.min_corner[2]]

\* everything the function computes before the loop (lines 138-194)
CamSetup(objects, scale_factor, padding_px, unit_scale) ==
    CamFrame(get_collection_bounds(objects),
             get_collection_center(objects),
             PaddingBU(padding_px, scale_factor, unit_scale),
             HalfFovH,
             HalfFovV(HalfFovH,
                      ResolutionOfDims(get_collection_dimensions(objects, unit_scale),
                                       scale_factor, padding_px)))

\* res_w / res_h and tan(half_fov_h) / aspect raise ZeroDivisionError
CamRaisesOn(res) == res[2] = 0 \/ res[1] = 0

CamRaises(objects, scale_factor, padding_px, unit_scale) ==
    CamRaisesOn(ResolutionOfDims(get_collection_dimensions(objects, unit_scale),
                                 scale_factor, padding_px))

\* a mutant: the distance is taken from the centre of the box, not from its front
CamLocation_fromcenter(cx, distance) ==
    <<cx.center[1],
      cx.center[2] - distance,
      cx.center[3] + MulFP(distance, TanElevation)>>

\* lines 202-206 and 268-272
CamLocation(cx, distance) ==
    <<cx.center[1],
      cx.object_front_y - distance,
      cx.center[3] + MulFP(distance, TanElevation)>>

\* v / m in FP steps with the sign of v, for abs(v) <= m
ScaledTo(v, m) == IF v >= 0 THEN Ratio(v, m) ELSE -Ratio(-v, m)

\* the vector (0, sy, sz) brought to length FP
UnitBy(sy, sz, len) == <<0, RoundDiv(sy * FP, len), RoundDiv(sz * FP, len)>>

Unit(sy, sz) == UnitBy(sy, sz, ISqrt(sy * sy + sz * sz))

NormalizedYZ(dy, dz) ==
    IF dy = 0 /\ dz = 0 THEN <<0, 0, 0>>
    ELSE Unit(ScaledTo(dy, Max2(Abs(dy), Abs(dz))), ScaledTo(dz, Max2(Abs(dy), Abs(dz))))

\* (center - cam_location).normalized(); the X component is 0
LookDirection(center, cam_location) ==
    NormalizedYZ(center[2] - cam_location[2], center[3] - cam_location[3])

\* to_corner.dot(look_direction)
ForwardDist(corner, cam_location, look_direction) ==
    MulFP(corner[2] - cam_location[2], look_direction[2])
        + MulFP(corner[3] - cam_location[3], look_direction[3])

HorizontalOffset(corner, cam_location) == corner[1] - cam_location[1]

VerticalOffset(corner, cam_location) ==
    MulFP(corner[3] - cam_location[3], CosElevation)
        + MulFP(corner[2] - cam_location[2], SinElevation)

\* abs(math.atan2(offset, forward_dist)), forward_dist > 0
AbsAngle(offset, forward_dist) == Abs(Atan2(offset, forward_dist))

\* line 251: h_angle > half_fov_h * 0.98 or v_angle > half_fov_v * 0.98
OutsideFov(h_angle, v_angle, half_fov_h, half_fov_v) ==
    h_angle * 100 > half_fov_h * 98 \/ v_angle * 100 > half_fov_v * 98

\* lines 238-252 for one corner in front of the camera
CornerInside(cx, corner, cam_location, forward_dist) ==
    ~OutsideFov(AbsAngle(HorizontalOffset(corner, cam_location), forward_dist),
                AbsAngle(VerticalOffset(corner, cam_location), forward_dist),
                cx.half_fov_h, cx.half_fov_v)

RECURSIVE CornersFrom_skip(_, _, _, _, _)
RECURSIVE CornerStep_skip(_, _, _, _, _, _)
\* a mutant: a corner behind the camera is skipped instead of failing the test
CornerStep_skip(cx, cam_location, look_direction, i, all_corners_visible, forward_dist) ==
    IF forward_dist <= 0
    THEN CornersFrom_skip(cx, cam_location, look_direction, i + 1, all_corners_visible)
    ELSE CornersFrom_skip(cx, cam_location, look_direction, i + 1,
             all_corners_visible
                 /\ CornerInside(cx, cx.bbox_corners[i], cam_location, forward_dist))

CornersFrom_skip(cx, cam_location, look_direction, i, all_corners_visible) ==
    IF i > Len(cx.bbox_corners) THEN all_corners_visible
    ELSE CornerStep_skip(cx, cam_location, look_direction, i, all_corners_visible,
                         ForwardDist(cx.bbox_corners[i], cam_location, look_direction))

RECURSIVE CornersFrom(_, _, _, _, _)
RECURSIVE CornerStep(_, _, _, _, _, _)
\* lines 220-252: corner i with its forward_dist; a corner behind the camera breaks
\* the loop
CornerStep(cx, cam_location, look_direction, i, all_corners_visible, forward_dist) ==
    IF forward_dist <= 0 THEN FALSE
    ELSE CornersFrom(cx, cam_location, look_direction, i + 1,
             all_corners_visible
                 /\ CornerInside(cx, cx.bbox_corners[i], cam_location, forward_dist))

\* the inner for loop, lines 216-252, from corner i on
CornersFrom(cx, cam_location, look_direction, i, all_corners_visible) ==
    IF i > Len(cx.bbox_corners) THEN all_corners_visible
    ELSE CornerStep(cx, cam_location, look_direction, i, all_corners_visible,
                    ForwardDist(cx.bbox_corners[i], cam_location, look_direction))

\* lines 208-252 from the camera location of this pass
VisibleFrom(cx, cam_location) ==
    CornersFrom(cx, cam_location, LookDirection(cx.center, cam_location), 1, TRUE)

\* one pass of the outer loop body up to the test of all_corners_visible
AllCornersVisible(cx, distance) == VisibleFrom(cx, CamLocation(cx, distance))

\* a mutant: the step adds a fixed length instead of a tenth
IncreaseDistance_additive(distance) == distance + 500

\* line 261: camera_distance *= 1.10
IncreaseDistance(distance) == RoundDiv(distance * 11, 10)

\* a mutant: no safety buffer
SafetyBuffer_none(distance) == distance

\* line 265: camera_distance *= 1.05
SafetyBuffer(distance) == RoundDiv(distance * 21, 20)

\* a mutant: the loop has no iteration bound
LoopEnds_unbounded(all_corners_visible, iteration) == all_corners_visible

\* the loop is left by the break or when range(max_iterations) is used up;
\* iteration is the index of the pass that just ran
LoopEnds(all_corners_visible, iteration) ==
    all_corners_visible \/ iteration + 1 >= max_iterations

\* direction.to_track_quat('-Z', 'Y').to_euler('XYZ') for a direction (0, dy, dz), dy > 0
CamRotation(center, location) ==
    LET dy == center[2] - location[2]
        dz == center[3] - location[3]
    IN  <<IF dz <= 0 THEN AtanRatio(dy, -dz) ELSE HalfPi + AtanRatio(dz, dy), 0, 0>>

\* line 136: Vector((0, -1, 0.5)), (math.radians(78), 0, 0)
CamFallback ==
    [location |-> <<0, -1 * TickPerBU, TickPerBU \div 2>>,
     rotation |-> <<136136, 0, 0>>]

\* lines 254-261: the distance a pass leaves
DistanceAfter(visible, distance) == IF visible THEN distance ELSE IncreaseDistance(distance)

RECURSIVE CamLoop(_, _, _)
RECURSIVE CamLoopPass(_, _, _, _)
\* a pass that found the corners visible or not
CamLoopPass(cx, distance, iteration, visible) ==
    IF LoopEnds(visible, iteration) THEN DistanceAfter(visible, distance)
    ELSE CamLoop(cx, DistanceAfter(visible, distance), iteration + 1)

\* the outer loop, lines 199-262, run to its end from pass "iteration"
CamLoop(cx, distance, iteration) ==
    CamLoopPass(cx, distance, iteration, AllCornersVisible(cx, distance))

\* lines 268-293: the return value for the final location
CamFinal(cx, location) ==
    [location |-> location, rotation |-> CamRotation(cx.center, location)]

\* lines 196-293 for the locals cx
CamSolve(cx) ==
    CamFinal(cx, CamLocation(cx, SafetyBuffer(CamLoop(cx, cx.camera_distance, 0))))

\* core.py calculate_camera_position as a function, for arguments it does not
\* raise on
calculate_camera_position(objects, scale_factor, padding_px, unit_scale) ==
    IF get_collection_bounds(objects).min_corner = None THEN CamFallback
    ELSE CamSolve(CamSetup(objects, scale_factor, padding_px, unit_scale))

(***************************************************************************)
(* Collections, the active object and output files.  A collection is       *)
(* identified by its name, as in bpy.data.collections; an object of the    *)
(* scene that may be absent (camera, rig, active object) is Missing.       *)
(***************************************************************************)
Missing == [missing |-> TRUE]

Coll(name, objects, hide_viewport, hide_render) ==
    [name |-> name, objects |-> objects,
     hide_viewport |-> hide_viewport, hide_render |-> hide_render]

\* scene.collection, where the camera, the rig and its lights are linked; it is
\* taken to hold no mesh
SceneCollection == <<"S", "c", "e", "n", "e">>

\* collection.objects of the collection called name
CollObjects(colls, name) ==
    IF name = SceneCollection THEN << >>
    ELSE colls[CHOOSE k \in 1..Len(colls) : colls[k].name = name].objects

\* core.py get_filtered_collections: the names, in bpy.data.collections order
RECURSIVE FilteredFrom(_, _, _)
FilteredFrom(colls, prefix, i) ==
    IF i > Len(colls) THEN << >>
    ELSE IF (prefix = << >> \/ StartsWith(colls[i].name, prefix)) /\ Len(colls[i].objects) > 0
    THEN <<colls[i].name>> \o FilteredFrom(colls, prefix, i + 1)
    ELSE FilteredFrom(colls, prefix, i + 1)

get_filtered_collections(colls, prefix) == FilteredFrom(colls, prefix, 1)

\* core.py get_target_collection, lines 675-678: the first collection of the
\* active object that matches the prefix
RECURSIVE UsersFrom(_, _, _)
UsersFrom(users_collection, prefix, i) ==
    IF i > Len(users_collection) THEN None
    ELSE IF prefix = << >> \/ StartsWith(users_collection[i], prefix)
    THEN users_collection[i]
    ELSE UsersFrom(users_collection, prefix, i + 1)

get_target_collection(colls, active, prefix) ==
    LET of_active == IF active = Missing THEN None
                     ELSE UsersFrom(active.users_collection, prefix, 1)
        filtered == get_filtered_collections(colls, prefix)
    IN  IF of_active # None THEN of_active
        ELSE IF filtered # << >> THEN filtered[1]
        ELSE None

\* core.py get_output_filename: the prefix removed, whitespace stripped at both
\* ends, spaces replaced by underscores, ".png" appended
RECURSIVE LStrip(_)
LStrip(name) ==
    IF name # << >> /\ Head(name) = " " THEN LStrip(Tail(name)) ELSE name

RECURSIVE RStrip(_)
RStrip(name) ==
    IF name # << >> /\ name[Len(name)] = " "
    THEN RStrip(SubSeq(name, 1, Len(name) - 1))
    ELSE name

get_output_filename(collection_name, prefix) ==
    LET name == IF prefix # << >> /\ StartsWith(collection_name, prefix)
                THEN SubSeq(collection_name, Len(prefix) + 1, Len(collection_name))
                ELSE collection_name
        stripped == RStrip(LStrip(name))
    IN  [k \in 1..Len(stripped) |-> IF stripped[k] = " " THEN "_" ELSE stripped[k]]
            \o <<".png">>

\* a file path: folder, file name and the number of the "_NNN" inserted before the
\* extension (0: none)
Path(dir, name, counter) == [dir |-> dir, name |-> name, counter |-> counter]

\* core.py validate_output_path; output_folder.usable stands for what the checks
\* of lines 706-727 find in the file system
validate_output_path(output_folder) ==
    IF output_folder.usable THEN <<TRUE, "", output_folder.path>>
    ELSE <<FALSE, "output_path_unusable", None>>

\* a mutant: the first number is taken whether or not its file exists
NextCounter_first(fs, base_path, counter) == counter

\* core.py resolve_output_filepath, lines 764-766
RECURSIVE NextCounter(_, _, _)
NextCounter(fs, base_path, counter) ==
    IF Path(base_path.dir, base_path.name, counter) \in fs
    THEN NextCounter(fs, base_path, counter + 1)
    ELSE counter

resolve_output_filepath(fs, base_path, overwrite_mode) ==
    IF overwrite_mode = "OVERWRITE" THEN <<TRUE, base_path>>
    ELSE IF overwrite_mode = "SKIP"
    THEN (IF base_path \in fs THEN <<FALSE, base_path>> ELSE <<TRUE, base_path>>)
    ELSE IF overwrite_mode = "INCREMENT"
    THEN (IF base_path \notin fs THEN <<TRUE, base_path>>
          ELSE <<TRUE, Path(base_path.dir, base_path.name, NextCounter(fs, base_path, 1))>>)
    ELSE <<TRUE, base_path>>

\* core.py setup_render_settings
setup_render_settings(r) ==
    [r EXCEPT !.file_format = "PNG", !.color_mode = "RGBA", !.color_depth = "16",
              !.film_transparent = TRUE]

\* core.py get_or_create_camera
get_or_create_camera(cam) ==
    IF cam # Missing THEN cam
    ELSE [location |-> <<0, 0, 0>>, rotation_euler |-> <<0, 0, 0>>,
          lens |-> FOCAL_LENGTH, sensor_width |-> SENSOR_WIDTH]

\* a mutant: the target is shown and the other collections are left as they are
set_collection_visibility_showonly(colls, target_collection, all_collections) ==
    [k \in 1..Len(colls) |->
        IF colls[k].name = target_collection
        THEN [colls[k] EXCEPT !.hide_viewport = FALSE, !.hide_render = FALSE]
        ELSE colls[k]]

\* core.py set_collection_visibility over all_collections (names)
set_collection_visibility(colls, target_collection, all_collections) ==
    [k \in 1..Len(colls) |->
        IF \E j \in 1..Len(all_collections) : all_collections[j] = colls[k].name
        THEN [colls[k] EXCEPT !.hide_viewport = (colls[k].name # target_collection),
                              !.hide_render = (colls[k].name # target_collection)]
        ELSE colls[k]]

\* the dict operators.py builds at lines 200-205
OriginalStates(colls, all_collections) ==
    [n \in {all_collections[j] : j \in 1..Len(all_collections)} |->
        LET c == colls[CHOOSE k \in 1..Len(colls) : colls[k].name = n]
        IN  [hide_viewport |-> c.hide_viewport, hide_render |-> c.hide_render]]

\* core.py restore_collection_visibility
restore_collection_visibility(colls, all_collections, original_states) ==
    [k \in 1..Len(colls) |->
        IF /\ \E j \in 1..Len(all_collections) : all_collections[j] = colls[k].name
           /\ colls[k].name \in DOMAIN original_states
        THEN [colls[k] EXCEPT !.hide_viewport = original_states[colls[k].name].hide_viewport,
                              !.hide_render = original_states[colls[k].name].hide_render]
        ELSE colls[k]]

(***************************************************************************)
(* lighting.py: the default light rig.  Energies in EnergyUnit steps,      *)
(* scale and light sizes in FP steps.                                      *)
(***************************************************************************)
EnergyUnit == 100

REFERENCE_HEIGHT == 200
BASE_KEY_ENERGY == 1000
BASE_FILL_ENERGY == 300
BASE_RIM_ENERGY == 500
KEY_LIGHT_SIZE == 2 * FP
FILL_LIGHT_SIZE == 3 * FP
RIM_LIGHT_SIZE == (3 * FP) \div 2

Light(energy, size) ==
    [energy |-> energy, size |-> size, hide_viewport |-> FALSE, hide_render |-> FALSE]

\* lighting.py get_or_create_light_rig, lines 89-124: the empty and its three lights
NewLightRig ==
    [location |-> <<0, 0, 0>>, scale |-> <<FP, FP, FP>>,
     hide_viewport |-> FALSE, hide_render |-> FALSE,
     children |-> [Key |-> Light(BASE_KEY_ENERGY * EnergyUnit, KEY_LIGHT_SIZE),
                   Fill |-> Light(BASE_FILL_ENERGY * EnergyUnit, FILL_LIGHT_SIZE),
                   Rim |-> Light(BASE_RIM_ENERGY * EnergyUnit, RIM_LIGHT_SIZE)]]

get_or_create_light_rig(r) == IF r # Missing THEN r ELSE NewLightRig

LIGHT_RIG_NAME == "SCALE_RENDER_LightRig"

\* the objects lines 89-124 add to bpy.data.objects: the empty and the three lights
RigObjectNames == <<LIGHT_RIG_NAME, "SCALE_RENDER_Key", "SCALE_RENDER_Fill", "SCALE_RENDER_Rim">>

\* a mutant: the rig is built whether or not one exists
RigObjectsMade_always(r) == RigObjectNames

\* lines 86-124: what a call of get_or_create_light_rig adds to bpy.data.objects
RigObjectsMade(r) == IF r # Missing THEN << >> ELSE RigObjectNames

\* line 91: empty_add leaves the new empty as the active object
RigAsActiveObject == [name |-> <<"r", "i", "g">>, users_collection |-> <<SceneCollection>>]

ActiveAfter(active, rig_before, rig_after) ==
    IF rig_before = Missing /\ rig_after # Missing THEN RigAsActiveObject ELSE active

collection_has_lights(objects) == \E i \in 1..Len(objects) : objects[i].type = "LIGHT"

\* lighting.py show_light_rig
show_light_rig(r, show) ==
    IF r = Missing THEN (IF show THEN get_or_create_light_rig(r) ELSE r)
    ELSE [r EXCEPT !.hide_viewport = ~show, !.hide_render = ~show,
                   !.children.Key.hide_viewport = ~show, !.children.Key.hide_render = ~show,
                   !.children.Fill.hide_viewport = ~show, !.children.Fill.hide_render = ~show,
                   !.children.Rim.hide_viewport = ~show, !.children.Rim.hide_render = ~show]

\* lines 272-275: what show_light_rig adds to bpy.data.objects
ShowRigMade(r, show) ==
    IF r = Missing THEN (IF show THEN RigObjectsMade(r) ELSE << >>) ELSE << >>

\* a mutant: no lower clamp
RigScaleFactor_nofloor(height) ==
    Min2(RoundDiv(height * (FP \div MmUnit), REFERENCE_HEIGHT), 20 * FP)

\* lines 188-191: height / REFERENCE_HEIGHT clamped to [0.1, 20.0], in FP steps
RigScaleFactor(height) ==
    Max2(FP \div 10, Min2(RoundDiv(height * (FP \div MmUnit), REFERENCE_HEIGHT), 20 * FP))

\* line 194: rig.location = None raises TypeError
ScaleRigRaises(objects) == get_collection_center(objects) = None

\* a mutant: the intensity follows the scale, not its square
IntensityMultiplier_linear(scale_factor) == RoundDiv(scale_factor, FP \div EnergyUnit)

\* line 200: scale_factor ** 2, in EnergyUnit steps
IntensityMultiplier(scale_factor) ==
    RoundDiv(MulFP(scale_factor, scale_factor), FP \div EnergyUnit)

\* a mutant: the scale is applied on top of the scale the rig has
ScaledRig_compound(rig0, collection_center, scale_factor, intensity_multiplier) ==
    [rig0 EXCEPT !.location = collection_center,
                 !.scale = <<rig0.scale[1] + scale_factor - FP,
                             rig0.scale[2] + scale_factor - FP,
                             rig0.scale[3] + scale_factor - FP>>,
                 !.children.Key.energy = BASE_KEY_ENERGY * intensity_multiplier,
                 !.children.Fill.energy = BASE_FILL_ENERGY * intensity_multiplier,
                 !.children.Rim.energy = BASE_RIM_ENERGY * intensity_multiplier,
                 !.children.Key.size = 2 * scale_factor,
                 !.children.Fill.size = 2 * scale_factor,
                 !.children.Rim.size = 2 * scale_factor]

\* a mutant: the sizes of the lights are left as they are
ScaledRig_keepsize(rig0, collection_center, scale_factor, intensity_multiplier) ==
    [rig0 EXCEPT !.location = collection_center,
                 !.scale = <<scale_factor, scale_factor, scale_factor>>,
                 !.children.Key.energy = BASE_KEY_ENERGY * intensity_multiplier,
                 !.children.Fill.energy = BASE_FILL_ENERGY * intensity_multiplier,
                 !.children.Rim.energy = BASE_RIM_ENERGY * intensity_multiplier]

\* lines 193-215
ScaledRig(rig0, collection_center, scale_factor, intensity_multiplier) ==
    [rig0 EXCEPT !.location = collection_center,
                 !.scale = <<scale_factor, scale_factor, scale_factor>>,
                 !.children.Key.energy = BASE_KEY_ENERGY * intensity_multiplier,
                 !.children.Fill.energy = BASE_FILL_ENERGY * intensity_multiplier,
                 !.children.Rim.energy = BASE_RIM_ENERGY * intensity_multiplier,
                 !.children.Key.size = 2 * scale_factor,
                 !.children.Fill.size = 2 * scale_factor,
                 !.children.Rim.size = 2 * scale_factor]

ScaleRigBy(rig0, collection_center, scale_factor) ==
    ScaledRig(rig0, collection_center, scale_factor, IntensityMultiplier(scale_factor))

\* lighting.py scale_light_rig_for_collection, for a group with a bounding box
scale_light_rig_for_collection(r, objects, unit_scale) ==
    ScaleRigBy(get_or_create_light_rig(r),
               get_collection_center(objects),
               RigScaleFactor(get_collection_dimensions(objects, unit_scale)[2]))

\* a mutant: the rig is hidden and scaled all the same for a group with lights
setup_lighting_for_collection_scales(r, objects, unit_scale) ==
    IF collection_has_lights(objects)
    THEN (IF ScaleRigRaises(objects) THEN show_light_rig(r, FALSE)
          ELSE scale_light_rig_for_collection(show_light_rig(r, FALSE), objects, unit_scale))
    ELSE scale_light_rig_for_collection(show_light_rig(r, TRUE), objects, unit_scale)

\* lighting.py setup_lighting_for_collection, for a group scale_light_rig_for_collection
\* does not raise on
setup_lighting_for_collection(r, objects, unit_scale) ==
    IF collection_has_lights(objects) THEN show_light_rig(r, FALSE)
    ELSE scale_light_rig_for_collection(show_light_rig(r, TRUE), objects, unit_scale)

SetupLightingRaises(objects) == ~collection_has_lights(objects) /\ ScaleRigRaises(objects)

\* line 181: what scale_light_rig_for_collection adds to bpy.data.objects
ScaleRigMade(r) == RigObjectsMade(r)

\* lines 304-312: what setup_lighting_for_collection adds to bpy.data.objects
SetupLightingMade(r, objects) ==
    IF collection_has_lights(objects) THEN ShowRigMade(r, FALSE)
    ELSE ShowRigMade(r, TRUE) \o ScaleRigMade(show_light_rig(r, TRUE))

\* bpy.data.objects after an operator that found the rig r and left the rig lrig
ObjectsAfter(objs, r, lrig) ==
    IF lrig # Missing THEN objs \o RigObjectsMade(r) ELSE objs

(***************************************************************************)
(* State.                                                                  *)
(***************************************************************************)
VARIABLES
    call,                 \* a call of one of the pure functions: its arguments and result
    cam_in,               \* arguments of the running calculate_camera_position
    cam_pc,               \* its position: "start", "loop", "final", "done", "raised"
    cam_cx,               \* its locals computed before the loop (bounding box, fov, corners)
    camera_distance,      \* its local camera_distance
    iteration,            \* its loop variable
    all_corners_visible,  \* its local all_corners_visible, as last computed
    cam_seed,             \* the camera_distance the loop started with
    cam_checks,           \* how many passes of the loop have run
    cam_out,              \* its return value
    collections,          \* bpy.data.collections: name, objects, hide_viewport, hide_render
    active_object,        \* context.active_object
    scale_length,         \* scene.unit_settings.scale_length
    props,                \* scene.scale_render_props
    render,               \* scene.render
    camera,               \* the object SCALE_RENDER_Camera
    scene_camera,         \* scene.camera
    rig,                  \* the object SCALE_RENDER_LightRig with its three lights
    data_objects,         \* bpy.data.objects: the names of the objects lighting.py has added
    view_perspective,     \* region_3d.view_perspective of the 3D viewport
    files,                \* the files in the output folder
    batch,                \* the locals of a running Render All
    result,               \* the operator run last and what it returned
    reports,              \* what that operator reported
    calls,                \* the validator, solver and scaler calls the handler run last
                          \* has made, in order
    obj_info              \* what get_selected_collection_info gave the last draw of the panel

addon_vars == <<collections, active_object, scale_length, props, render, camera,
                scene_camera, rig, data_objects, view_perspective, files, batch, result,
                reports, calls, obj_info>>

vars == <<call, cam_in, cam_pc, cam_cx, camera_distance, iteration, all_corners_visible,
          cam_seed, cam_checks, cam_out, addon_vars>>

fn_vars == <<call>>

cam_vars == <<cam_in, cam_pc, cam_cx, camera_distance, iteration, all_corners_visible,
              cam_seed, cam_checks, cam_out>>

FnIdle == call = [fn |-> "none"]

CamIdle ==
    /\ cam_in = None
    /\ cam_pc = "idle"
    /\ cam_cx = None
    /\ camera_distance = 0
    /\ iteration = 0
    /\ all_corners_visible = FALSE
    /\ cam_seed = 0
    /\ cam_checks = 0
    /\ cam_out = None

AddonIdle ==
    /\ collections = << >>
    /\ active_object = Missing
    /\ scale_length = UsUnit
    /\ props = Missing
    /\ render = Missing
    /\ camera = Missing
    /\ scene_camera = None
    /\ rig = Missing
    /\ data_objects = << >>
    /\ view_perspective = "PERSP"
    /\ files = {}
    /\ batch = Missing
    /\ result = Missing
    /\ reports = << >>
    /\ calls = << >>
    /\ obj_info = Missing

SeqsUpTo(S, n) == UNION {[1..k -> S] : k \in 0..n}

(***************************************************************************)
(* SpecFn: the pure functions applied to inputs drawn from bounded sets.   *)
(***************************************************************************)
\* widths and heights in MmUnit steps: -0.55, 0, 0.55, 1, 12.34, 100, 200 mm
ResMm == {-55, 0, 55, 100, 1234, 10000, 20000}

\* scale factors in SfUnit steps: 0.1, 2.5, 10 px/mm
ResScale == {1, 25, 100}

ResPadding == {0, 10}

\* bounding-box extents in ticks: 0, 0.5, 1, 50, 10000, 11000 mm at scale_length 1.0
DimTicks == {0, 5, 10, 500, 100000, 110000}

UnitScales == {10, 1}

ResPx == {-5, 0, 1, 1000, 8192, 8193, 9000, 16384, 16385, 20000}

FnCalls ==
    {[fn |-> "calculate_resolution", width_mm |-> w, height_mm |-> h,
      scale_factor |-> s, padding_px |-> p, out |-> None] :
        w \in ResMm, h \in ResMm, s \in ResScale, p \in ResPadding}
    \cup
    {[fn |-> "validate_collection_dimensions",
      objects |-> <<Part("MESH", <<"m">>, <<0, 0, 0>>, <<d[1], d[3], d[2]>>)>>,
      unit_scale |-> u, out |-> None] :
        d \in DimTicks \X DimTicks \X DimTicks, u \in UnitScales}
    \cup
    {[fn |-> "validate_collection_dimensions", objects |-> << >>,
      unit_scale |-> u, out |-> None] : u \in UnitScales}
    \cup
    {[fn |-> "validate_resolution", width_px |-> w, height_px |-> h, out |-> None] :
        w \in ResPx, h \in ResPx}

InitFn ==
    /\ call \in FnCalls
    /\ CamIdle
    /\ AddonIdle

ApplyCalculateResolution ==
    /\ call.fn = "calculate_resolution"
    /\ call.out = None
    /\ call' = [call EXCEPT !.out = calculate_resolution(call.width_mm, call.height_mm,
                                                        call.scale_factor, call.padding_px)]
    /\ UNCHANGED <<cam_vars, addon_vars>>

ApplyValidateCollectionDimensions ==
    /\ call.fn = "validate_collection_dimensions"
    /\ call.out = None
    /\ call' = [call EXCEPT !.out = validate_collection_dimensions(call.objects, call.unit_scale)]
    /\ UNCHANGED <<cam_vars, addon_vars>>

\* a mutant: the validator writes the resolution it was asked about
ApplyValidateResolution_writes ==
    /\ call.fn = "validate_resolution"
    /\ call.out = None
    /\ call' = [call EXCEPT !.out = validate_resolution(call.width_px, call.height_px)]
    /\ render' = [resolution_x |-> call.width_px, resolution_y |-> call.height_px]
    /\ UNCHANGED <<cam_vars, collections, active_object, scale_length, props, camera,
                   scene_camera, rig, data_objects, view_perspective, files, batch, result,
                   reports, calls, obj_info>>

ApplyValidateResolution ==
    /\ call.fn = "validate_resolution"
    /\ call.out = None
    /\ call' = [call EXCEPT !.out = validate_resolution(call.width_px, call.height_px)]
    /\ UNCHANGED <<cam_vars, addon_vars>>

NextFn ==
    \/ ApplyCalculateResolution
    \/ ApplyValidateCollectionDimensions
    \/ ApplyValidateResolution

SpecFn == InitFn /\ [][NextFn]_vars

(***************************************************************************)
(* SpecGeom: the geometry aggregation functions applied to groups of up to *)
(* MaxParts parts.                                                         *)
(***************************************************************************)
\* a part whose world corners are those of a box turned by 45 degrees about Z
TurnedPart ==
    [type |-> "MESH", name |-> <<"r">>,
     world_corners |-> << <<0, -700, 0>>, <<0, -700, 400>>, <<700, 0, 400>>, <<700, 0, 0>>,
                          <<-700, 0, 0>>, <<-700, 0, 400>>, <<0, 700, 400>>, <<0, 700, 0>> >>]

\* parts, in ticks: a cube, an offset slab, a mesh of a single vertex at the origin, the turned
\* box, a helper mesh at two places, a light and an empty
GeomParts ==
    { Part("MESH", <<"a">>, <<0, 0, 0>>, <<1000, 1000, 1000>>),
      Part("MESH", <<"b">>, <<-500, 200, 300>>, <<200, 400, 2500>>),
      Part("MESH", <<"z">>, <<0, 0, 0>>, <<0, 0, 0>>),
      TurnedPart,
      Part("MESH", <<"_", "h">>, <<-9000, -9000, -9000>>, <<9000, 9000, 9000>>),
      Part("MESH", <<"_", "h">>, <<5000, 5000, 5000>>, <<6000, 6000, 6000>>),
      Part("LIGHT", <<"l">>, <<8000, 8000, 8000>>, <<8000, 8000, 8000>>),
      Part("EMPTY", <<"e">>, <<-8000, 0, 0>>, <<-8000, 0, 0>>) }

GeomGroups == SeqsUpTo(GeomParts, MaxParts)

GeomCalls ==
    {[fn |-> f, objects |-> o, unit_scale |-> UsUnit, done |-> FALSE, out |-> None] :
        f \in {"get_collection_bounds", "get_collection_center",
                "get_collection_dimensions"},
        o \in GeomGroups}

InitGeom ==
    /\ call \in GeomCalls
    /\ CamIdle
    /\ AddonIdle

ApplyGetCollectionBounds ==
    /\ call.fn = "get_collection_bounds"
    /\ ~call.done
    /\ call' = [call EXCEPT !.done = TRUE, !.out = get_collection_bounds(call.objects)]
    /\ UNCHANGED <<cam_vars, addon_vars>>

ApplyGetCollectionCenter ==
    /\ call.fn = "get_collection_center"
    /\ ~call.done
    /\ call' = [call EXCEPT !.done = TRUE, !.out = get_collection_center(call.objects)]
    /\ UNCHANGED <<cam_vars, addon_vars>>

ApplyGetCollectionDimensions ==
    /\ call.fn = "get_collection_dimensions"
    /\ ~call.done
    /\ call' = [call EXCEPT !.done = TRUE,
                            !.out = get_collection_dimensions(call.objects, call.unit_scale)]
    /\ UNCHANGED <<cam_vars, addon_vars>>

NextGeom ==
    \/ ApplyGetCollectionBounds
    \/ ApplyGetCollectionCenter
    \/ ApplyGetCollectionDimensions

SpecGeom == InitGeom /\ [][NextGeom]_vars

(***************************************************************************)
(* SpecCam: calculate_camera_position run pass by pass.                    *)
(***************************************************************************)
\* parts, in ticks: a 100 mm cube, a 10 x 10 x 2000 mm pole, a 500 x 100 x 50 mm
\* plank, a flat 200 x 200 mm plane, a helper mesh and a light
CamParts ==
    { Part("MESH", <<"c">>, <<-500, -500, 0>>, <<500, 500, 1000>>),
      Part("MESH", <<"p">>, <<-50, -50, 0>>, <<50, 50, 20000>>),
      Part("MESH", <<"w">>, <<-2500, -500, 0>>, <<2500, 500, 500>>),
      Part("MESH", <<"f">>, <<-1000, -1000, 0>>, <<1000, 1000, 0>>),
      Part("MESH", <<"_", "h">>, <<-9000, -9000, -9000>>, <<9000, 9000, 9000>>),
      Part("LIGHT", <<"l">>, <<300, 300, 300>>, <<300, 300, 300>>) }

CamScale == {100, 25}

CamPadding == {0, 10}

\* sides of the cubes, in ticks: 10 mm to 600 mm
CubeSides == {100, 150, 250, 500, 750, 1000, 1500, 2000, 3000, 4000, 6000}

\* a cube mesh of the given side whose bounding box is centered at the origin
Cube(side) ==
    Part("MESH", <<"q">>, <<-(side \div 2), -(side \div 2), -(side \div 2)>>,
         <<side \div 2, side \div 2, side \div 2>>)

CamInputs ==
    {[objects |-> o, scale_factor |-> s, padding_px |-> p, unit_scale |-> u] :
        o \in SeqsUpTo(CamParts, MaxParts), s \in CamScale, p \in CamPadding,
        u \in UnitScales}
    \cup
    {[objects |-> <<Cube(side)>>, scale_factor |-> s, padding_px |-> p,
      unit_scale |-> UsUnit] :
        side \in CubeSides, s \in CamScale, p \in CamPadding}

InitCam ==
    /\ FnIdle
    /\ AddonIdle
    /\ cam_in \in CamInputs
    /\ cam_pc = "start"
    /\ cam_cx = None
    /\ camera_distance = 0
    /\ iteration = 0
    /\ all_corners_visible = FALSE
    /\ cam_seed = 0
    /\ cam_checks = 0
    /\ cam_out = None

\* lines 131-136: no bounding box, the fallback frame is returned
CamReturnFallback ==
    /\ cam_pc = "start"
    /\ get_collection_bounds(cam_in.objects).min_corner = None
    /\ cam_pc' = "done"
    /\ cam_out' = CamFallback
    /\ UNCHANGED <<addon_vars, call, cam_in, cam_cx, camera_distance, iteration,
                   all_corners_visible, cam_seed, cam_checks>>

\* lines 157-161: the division by a zero res_h or a zero aspect raises
CamRaise ==
    /\ cam_pc = "start"
    /\ get_collection_bounds(cam_in.objects).min_corner # None
    /\ CamRaises(cam_in.objects, cam_in.scale_factor, cam_in.padding_px, cam_in.unit_scale)
    /\ cam_pc' = "raised"
    /\ UNCHANGED <<addon_vars, call, cam_in, cam_cx, camera_distance, iteration,
                   all_corners_visible, cam_seed, cam_checks, cam_out>>

\* lines 138-198: the initial estimate
CamEstimate ==
    /\ cam_pc = "start"
    /\ get_collection_bounds(cam_in.objects).min_corner # None
    /\ ~CamRaises(cam_in.objects, cam_in.scale_factor, cam_in.padding_px, cam_in.unit_scale)
    /\ cam_cx' = CamSetup(cam_in.objects, cam_in.scale_factor, cam_in.padding_px,
                          cam_in.unit_scale)
    /\ camera_distance' = cam_cx'.camera_distance
    /\ cam_seed' = cam_cx'.camera_distance
    /\ iteration' = 0
    /\ cam_pc' = "loop"
    /\ UNCHANGED <<addon_vars, call, cam_in, all_corners_visible, cam_checks, cam_out>>

\* lines 254-262 of a pass that found the corners visible or not
CamPassEnd(visible) ==
    /\ all_corners_visible' = visible
    /\ camera_distance' = DistanceAfter(visible, camera_distance)
    /\ IF LoopEnds(visible, iteration)
       THEN cam_pc' = "final" /\ iteration' = iteration
       ELSE cam_pc' = "loop" /\ iteration' = iteration + 1

\* lines 199-262: one pass of the loop
CamPass ==
    /\ cam_pc = "loop"
    /\ CamPassEnd(AllCornersVisible(cam_cx, camera_distance))
    /\ cam_checks' = cam_checks + 1
    /\ UNCHANGED <<addon_vars, call, cam_in, cam_cx, cam_seed, cam_out>>

\* lines 264-293: the safety buffer, the final position and the rotation
CamReturn ==
    /\ cam_pc = "final"
    /\ camera_distance' = SafetyBuffer(camera_distance)
    /\ cam_out' = CamFinal(cam_cx, CamLocation(cam_cx, SafetyBuffer(camera_distance)))
    /\ cam_pc' = "done"
    /\ UNCHANGED <<addon_vars, call, cam_in, cam_cx, iteration, all_corners_visible, cam_seed,
                   cam_checks>>

NextCam ==
    \/ CamReturnFallback
    \/ CamRaise
    \/ CamEstimate
    \/ CamPass
    \/ CamReturn

SpecCam == InitCam /\ [][NextCam]_vars

(***************************************************************************)
(* SpecLight: the functions of lighting.py called in any order on groups   *)
(* of any height.                                                          *)
(***************************************************************************)
\* collection.objects of the groups, in ticks: 200 mm tall (the reference height),
\* 400 mm, 1 mm, a flat plane, 100 m, two parts spanning 300 mm, 123.4 mm, a mesh
\* with a lamp of its own, a helper mesh alone, no object, a lamp alone
LightGroups ==
    { <<Part("MESH", <<"r">>, <<0, 0, 0>>, <<1000, 1000, 2000>>)>>,
      <<Part("MESH", <<"d">>, <<-1000, -1000, 0>>, <<1000, 1000, 4000>>)>>,
      <<Part("MESH", <<"t">>, <<0, 0, 0>>, <<10, 10, 10>>)>>,
      <<Part("MESH", <<"f">>, <<-1000, -1000, 0>>, <<1000, 1000, 0>>)>>,
      <<Part("MESH", <<"h">>, <<0, 0, 0>>, <<1000, 1000, 1000000>>)>>,
      <<Part("MESH", <<"a">>, <<0, 0, 0>>, <<1000, 1000, 1000>>),
        Part("MESH", <<"b">>, <<2000, 0, 1000>>, <<3000, 1000, 3000>>)>>,
      <<Part("MESH", <<"o">>, <<0, 0, -234>>, <<500, 500, 1000>>)>>,
      <<Part("MESH", <<"m">>, <<0, 0, 0>>, <<1000, 1000, 2000>>),
        Part("LIGHT", <<"l">>, <<300, 300, 300>>, <<300, 300, 300>>)>>,
      <<Part("MESH", <<"_", "h">>, <<0, 0, 0>>, <<1000, 1000, 1000>>)>>,
      << >>,
      <<Part("LIGHT", <<"k">>, <<300, 300, 300>>, <<300, 300, 300>>)>> }

\* the call made last: the function, its arguments, whether it raised
LightCall(fn, objects, show, raised) ==
    [fn |-> fn, objects |-> objects, show |-> show, raised |-> raised]

InitLight ==
    /\ FnIdle
    /\ CamIdle
    /\ AddonIdle

\* what a call of lighting.py leaves alone
LightFrame ==
    UNCHANGED <<cam_vars, collections, scale_length, props, render, camera, scene_camera,
                view_perspective, files, batch, result, reports, calls, obj_info>>

\* lighting.py get_or_create_light_rig()
LightGetOrCreate ==
    /\ rig' = get_or_create_light_rig(rig)
    /\ data_objects' = data_objects \o RigObjectsMade(rig)
    /\ active_object' = ActiveAfter(active_object, rig, rig')
    /\ call' = LightCall("get_or_create_light_rig", << >>, TRUE, FALSE)
    /\ LightFrame

\* lighting.py show_light_rig(show)
LightShow(show) ==
    /\ rig' = show_light_rig(rig, show)
    /\ data_objects' = data_objects \o ShowRigMade(rig, show)
    /\ active_object' = ActiveAfter(active_object, rig, rig')
    /\ call' = LightCall("show_light_rig", << >>, show, FALSE)
    /\ LightFrame

LightShowRig == \E show \in BOOLEAN : LightShow(show)

\* lighting.py scale_light_rig_for_collection(collection): for a group without a
\* bounding box line 194 raises TypeError, after line 181 has fetched or built the rig
LightScaleOn(objects) ==
    /\ rig' = IF ScaleRigRaises(objects) THEN get_or_create_light_rig(rig)
              ELSE scale_light_rig_for_collection(rig, objects, scale_length)
    /\ data_objects' = data_objects \o ScaleRigMade(rig)
    /\ active_object' = ActiveAfter(active_object, rig, rig')
    /\ call' = LightCall("scale_light_rig_for_collection", objects, TRUE,
                         ScaleRigRaises(objects))
    /\ LightFrame

LightScale == \E objects \in LightGroups : LightScaleOn(objects)

\* lighting.py setup_lighting_for_collection(collection)
LightSetupOn(objects) ==
    /\ rig' = IF SetupLightingRaises(objects)
              THEN get_or_create_light_rig(show_light_rig(rig, TRUE))
              ELSE setup_lighting_for_collection(rig, objects, scale_length)
    /\ data_objects' = data_objects \o SetupLightingMade(rig, objects)
    /\ active_object' = ActiveAfter(active_object, rig, rig')
    /\ call' = LightCall("setup_lighting_for_collection", objects, TRUE,
                         SetupLightingRaises(objects))
    /\ LightFrame

LightSetup == \E objects \in LightGroups : LightSetupOn(objects)

NextLight ==
    \/ LightGetOrCreate
    \/ LightShowRig
    \/ LightScale
    \/ LightSetup

SpecLight == InitLight /\ [][NextLight]_vars

(***************************************************************************)
(* Spec: the operators of the addon run on a scene.                        *)
(***************************************************************************)
\* the largest number of files a run in INCREMENT mode may leave in the folder
MaxFiles == 3

CameraName == "SCALE_RENDER_Camera"

\* the scene of the model: a 100 mm cube; a 1000 x 100 x 500 mm slab with a lamp of
\* its own, hidden from renders; the 10 x 10 x 2000 mm pole; a flat plane; a helper
\* mesh with a lamp; an empty collection; a 5 x 50 x 50 mm chip outside the prefix
CollPool ==
    << Coll(<<"R", "_", "a">>,
            <<Part("MESH", <<"c">>, <<-500, -500, 0>>, <<500, 500, 1000>>)>>, FALSE, FALSE),
       Coll(<<"R", "_", "b">>,
            <<Part("MESH", <<"s">>, <<-5000, -500, 0>>, <<5000, 500, 5000>>),
              Part("LIGHT", <<"l">>, <<300, 300, 300>>, <<300, 300, 300>>)>>, FALSE, TRUE),
       Coll(<<"R", "_", "p">>,
            <<Part("MESH", <<"p">>, <<-50, -50, 0>>, <<50, 50, 20000>>)>>, FALSE, FALSE),
       Coll(<<"R", "_", "e">>,
            <<Part("MESH", <<"f">>, <<-1000, -1000, 0>>, <<1000, 1000, 0>>)>>, TRUE, FALSE),
       Coll(<<"R", "_", "h">>,
            <<Part("MESH", <<"_", "h">>, <<-9000, -9000, -9000>>, <<9000, 9000, 9000>>),
              Part("LIGHT", <<"k">>, <<300, 300, 300>>, <<300, 300, 300>>)>>, FALSE, FALSE),
       Coll(<<"R", "_", "f">>, << >>, FALSE, FALSE),
       Coll(<<"x">>,
            <<Part("MESH", <<"q">>, <<0, 0, 0>>, <<50, 500, 500>>)>>, FALSE, FALSE) >>

OutputFolder(usable) == [path |-> "//renders/", usable |-> usable]

Scene(picked) == [k \in 1..Len(picked) |-> CollPool[picked[k]]]

Props(scale_factor, padding_px, collection_prefix, overwrite_mode, usable) ==
    [scale_factor |-> scale_factor, padding_px |-> padding_px,
     collection_prefix |-> collection_prefix, overwrite_mode |-> overwrite_mode,
     output_folder |-> OutputFolder(usable), selected_collection |-> << >>]

\* the scenes the operators are run on: bpy.data.collections and scale_render_props
\* as the user has set them (scale factors 10, 0.1 and 2.5 px/mm), and the files the
\* output folder already holds
Setups ==
    { [collections |-> Scene(<<1, 2>>),
       props |-> Props(10 * SfUnit, 10, <<"R", "_">>, "OVERWRITE", TRUE), files |-> {}],
      [collections |-> Scene(<<3, 1>>),
       props |-> Props(10 * SfUnit, 10, <<"R", "_">>, "OVERWRITE", TRUE), files |-> {}],
      [collections |-> Scene(<<7, 1>>),
       props |-> Props(1, 0, << >>, "SKIP", TRUE), files |-> {}],
      [collections |-> Scene(<<4, 3>>),
       props |-> Props(25, 0, <<"R", "_">>, "INCREMENT", TRUE), files |-> {}],
      [collections |-> Scene(<<5, 6>>),
       props |-> Props(10 * SfUnit, 10, <<"R", "_">>, "OVERWRITE", TRUE), files |-> {}],
      [collections |-> Scene(<<1>>),
       props |-> Props(10 * SfUnit, 0, <<"R", "_">>, "OVERWRITE", FALSE), files |-> {}],
      [collections |-> Scene(<< >>),
       props |-> Props(10 * SfUnit, 10, <<"R", "_">>, "OVERWRITE", TRUE), files |-> {}],
      [collections |-> Scene(<<3>>),
       props |-> Props(25, 0, <<"R", "_">>, "INCREMENT", TRUE),
       files |-> {Path(OutputFolder(TRUE).path, <<"p", ".png">>, 0),
                  Path(OutputFolder(TRUE).path, <<"p", ".png">>, 2)}] }

\* an entry of the log of calls: the function, the collection it was called for, and
\* whether it accepted (a validator) or returned (the solver, the scaler)
CallOf(fn, collection, ok) == [fn |-> fn, collection |-> collection, ok |-> ok]

\* the calls that follow an accepted resolution: the solver, then the scaler unless
\* the collection has lights of its own (operators.py 78-90 and 255-264,
\* lighting.py 304-312)
CallsOnceValidated(collection, objects, cam_raises) ==
    <<CallOf("calculate_camera_position", collection, ~cam_raises)>>
    \o (IF cam_raises \/ collection_has_lights(objects) THEN << >>
        ELSE <<CallOf("scale_light_rig_for_collection", collection,
                      ~ScaleRigRaises(objects))>>)

\* the calls from the dimension check on (operators.py 47-90 and 223-264)
CallsFromChecks(collection, objects, dim_ok, res_ok, cam_raises) ==
    <<CallOf("validate_collection_dimensions", collection, dim_ok)>>
    \o (IF ~dim_ok THEN << >>
        ELSE <<CallOf("validate_resolution", collection, res_ok)>>
             \o (IF ~res_ok THEN << >>
                 ELSE CallsOnceValidated(collection, objects, cam_raises)))

\* the verdict of validate_resolution on the resolution of objects
ResolutionCheck(objects) ==
    validate_resolution(
        ResolutionOfDims(get_collection_dimensions(objects, scale_length),
                         props.scale_factor, props.padding_px)[1],
        ResolutionOfDims(get_collection_dimensions(objects, scale_length),
                         props.scale_factor, props.padding_px)[2])

\* operators.py SCALE_RENDER_OT_eval.execute, lines 31-90: the calls it makes
EvalCalls(collection) ==
    IF collection = None THEN << >>
    ELSE IF get_primary_object(CollObjects(collections, collection)) = None THEN << >>
    ELSE CallsFromChecks(
             collection, CollObjects(collections, collection),
             validate_collection_dimensions(CollObjects(collections, collection),
                                            scale_length)[1],
             ResolutionCheck(CollObjects(collections, collection))[1],
             CamRaises(CollObjects(collections, collection), props.scale_factor,
                       props.padding_px, scale_length))

\* operators.py SCALE_RENDER_OT_render_all.execute, lines 212-264: the calls one
\* pass of the loop makes
RenderAllCalls(collection) ==
    IF get_primary_object(CollObjects(collections, collection)) = None THEN << >>
    ELSE CallsFromChecks(
             collection, CollObjects(collections, collection),
             validate_collection_dimensions(CollObjects(collections, collection),
                                            scale_length)[1],
             ResolutionCheck(CollObjects(collections, collection))[1],
             CamRaises(CollObjects(collections, collection), props.scale_factor,
                       props.padding_px, scale_length))

\* what get_selected_collection_info gives when it has no figures: None
\* ("returned_none"), an exception ("raised"); "not_drawn" before the first draw
NoInfo(status) ==
    [status |-> status, collection |-> << >>, dims |-> <<0, 0, 0>>, res |-> <<0, 0>>,
     location |-> <<0, 0, 0>>, center |-> <<0, 0, 0>>]

\* panel.py get_selected_collection_info, lines 200-236, for a collection with a
\* primary object: the dimensions, the resolution, and the camera location and the
\* centre that cam_dist is the distance of
SelectedInfo(collection, objects, p, unit_scale) ==
    IF CamRaises(objects, p.scale_factor, p.padding_px, unit_scale) THEN NoInfo("raised")
    ELSE [status |-> "info", collection |-> collection,
          dims |-> get_collection_dimensions(objects, unit_scale),
          res |-> ResolutionOfDims(get_collection_dimensions(objects, unit_scale),
                                   p.scale_factor, p.padding_px),
          location |-> calculate_camera_position(objects, p.scale_factor, p.padding_px,
                                                 unit_scale).location,
          center |-> get_collection_center(objects)]

\* panel.py get_selected_collection_info, lines 186-236
get_selected_collection_info(colls, p, unit_scale) ==
    IF p.selected_collection = << >> THEN NoInfo("returned_none")
    ELSE IF ~\E k \in 1..Len(colls) : colls[k].name = p.selected_collection
    THEN NoInfo("returned_none")
    ELSE IF get_primary_object(CollObjects(colls, p.selected_collection)) = None
    THEN NoInfo("returned_none")
    ELSE SelectedInfo(p.selected_collection, CollObjects(colls, p.selected_collection),
                      p, unit_scale)

\* panel.py get_selected_collection_info, lines 186-214: the calls it makes
PanelCalls(colls, p, unit_scale) ==
    IF p.selected_collection = << >> THEN << >>
    ELSE IF ~\E k \in 1..Len(colls) : colls[k].name = p.selected_collection THEN << >>
    ELSE IF get_primary_object(CollObjects(colls, p.selected_collection)) = None THEN << >>
    ELSE <<CallOf("calculate_camera_position", p.selected_collection,
                  ~CamRaises(CollObjects(colls, p.selected_collection), p.scale_factor,
                             p.padding_px, unit_scale))>>

Init ==
    /\ FnIdle
    /\ CamIdle
    /\ \E setup \in Setups :
          /\ collections = setup.collections
          /\ props = setup.props
          /\ files = setup.files
    /\ active_object = Missing
    /\ scale_length = UsUnit
    /\ render = [resolution_x |-> 1920, resolution_y |-> 1080, resolution_percentage |-> 50,
                 file_format |-> "PNG", color_mode |-> "RGB", color_depth |-> "8",
                 film_transparent |-> FALSE, filepath |-> Path("/tmp/", << >>, 0)]
    /\ camera = Missing
    /\ scene_camera = None
    /\ rig = Missing
    /\ data_objects = << >>
    /\ view_perspective = "PERSP"
    /\ batch = Missing
    /\ result = [op |-> "none", ret |-> "none", counts |-> <<0, 0, 0>>]
    /\ reports = << >>
    /\ calls = << >>
    /\ obj_info = NoInfo("not_drawn")

\* the user makes an object of some collection the active object (context.active_object)
SelectObject ==
    /\ batch = Missing
    /\ \E k \in 1..Len(collections) :
          /\ Len(collections[k].objects) > 0
          /\ active_object' = [name |-> collections[k].objects[1].name,
                               users_collection |-> <<collections[k].name>>]
    /\ UNCHANGED <<fn_vars, cam_vars, collections, scale_length, props, render, camera,
                   scene_camera, rig, data_objects, view_perspective, files, batch, result,
                   reports, calls, obj_info>>

\* what an Eval leaves: its return value, its reports and the scene
EvalLeaves(ret, reps, r, cam, scam, lrig, vp) ==
    [ret |-> ret, reports |-> reps, render |-> r, camera |-> cam, scene_camera |-> scam,
     rig |-> lrig, active_object |-> ActiveAfter(active_object, rig, lrig),
     data_objects |-> ObjectsAfter(data_objects, rig, lrig),
     view_perspective |-> vp]

\* a mutant: the camera is fetched or made before the checks
EvalAborted_makescamera(msg) ==
    EvalLeaves("CANCELLED", << <<"ERROR", msg>> >>, render, get_or_create_camera(camera),
               scene_camera, rig, view_perspective)

\* an Eval that stops at an error report: nothing is changed
EvalAborted(msg) ==
    EvalLeaves("CANCELLED", << <<"ERROR", msg>> >>, render, camera, scene_camera, rig,
               view_perspective)

\* lines 62-63: the warning of validate_resolution is reported
Warned(res_check) ==
    IF res_check[2] # "" THEN << <<"WARNING", res_check[2]>> >> ELSE << >>

\* camera.location = location; camera.rotation_euler = rotation
Framed(cam, frame) ==
    [cam EXCEPT !.location = frame.location, !.rotation_euler = frame.rotation]

\* lines 86-104: the camera is made the scene camera, the lighting is set up
EvalLighting(objects, warned, render_set, framed) ==
    IF SetupLightingRaises(objects)
    THEN EvalLeaves("EXCEPTION", warned, render_set, framed, CameraName,
                    show_light_rig(rig, TRUE), view_perspective)
    ELSE EvalLeaves("FINISHED", warned \o << <<"INFO", "eval">> >>, render_set, framed,
                    CameraName, setup_lighting_for_collection(rig, objects, scale_length),
                    "CAMERA")

\* lines 73-84: the camera is fetched and placed
EvalCamera(objects, warned, render_set, cam) ==
    IF CamRaises(objects, props.scale_factor, props.padding_px, scale_length)
    THEN EvalLeaves("EXCEPTION", warned, render_set, cam, scene_camera, rig,
                    view_perspective)
    ELSE EvalLighting(objects, warned, render_set,
                      Framed(cam, calculate_camera_position(objects, props.scale_factor,
                                                            props.padding_px, scale_length)))

\* a mutant: the resolution is written before it is validated
EvalResolution_writesfirst(objects, res, res_check) ==
    IF ~res_check[1]
    THEN EvalLeaves("CANCELLED", << <<"ERROR", res_check[2]>> >>,
                    [render EXCEPT !.resolution_x = res[1], !.resolution_y = res[2],
                                   !.resolution_percentage = 100],
                    camera, scene_camera, rig, view_perspective)
    ELSE EvalCamera(objects, Warned(res_check),
                    setup_render_settings([render EXCEPT !.resolution_x = res[1],
                                                         !.resolution_y = res[2],
                                                         !.resolution_percentage = 100]),
                    get_or_create_camera(camera))

\* lines 57-71: the resolution is validated and written
EvalResolution(objects, res, res_check) ==
    IF ~res_check[1] THEN EvalAborted(res_check[2])
    ELSE EvalCamera(objects, Warned(res_check),
                    setup_render_settings([render EXCEPT !.resolution_x = res[1],
                                                         !.resolution_y = res[2],
                                                         !.resolution_percentage = 100]),
                    get_or_create_camera(camera))

\* lines 35-55: the checks of the collection and its resolution
EvalChecks(objects, dim_check, res) ==
    IF get_primary_object(objects) = None THEN EvalAborted("no_mesh_objects")
    ELSE IF ~dim_check[1] THEN EvalAborted(dim_check[2])
    ELSE EvalResolution(objects, res, validate_resolution(res[1], res[2]))

\* lines 31-104 for the target collection
EvalCollection(collection) ==
    IF collection = None THEN EvalAborted("no_collections_found")
    ELSE EvalChecks(CollObjects(collections, collection),
                    validate_collection_dimensions(CollObjects(collections, collection),
                                                   scale_length),
                    ResolutionOfDims(
                        get_collection_dimensions(CollObjects(collections, collection),
                                                  scale_length),
                        props.scale_factor, props.padding_px))

\* operators.py SCALE_RENDER_OT_eval.execute, lines 25-104: its return value, its
\* reports and the scene it leaves
SCALE_RENDER_OT_eval ==
    EvalCollection(get_target_collection(collections, active_object,
                                         props.collection_prefix))

\* the scene an Eval that left e is written back
EvalApplied(e) ==
    /\ render' = e.render
    /\ camera' = e.camera
    /\ scene_camera' = e.scene_camera
    /\ rig' = e.rig
    /\ data_objects' = e.data_objects
    /\ active_object' = e.active_object
    /\ view_perspective' = e.view_perspective
    /\ reports' = e.reports
    /\ result' = [op |-> "eval", ret |-> e.ret, counts |-> <<0, 0, 0>>]

\* the Eval button
Eval ==
    /\ batch = Missing
    /\ EvalApplied(SCALE_RENDER_OT_eval)
    /\ calls' = EvalCalls(get_target_collection(collections, active_object,
                                                props.collection_prefix))
    /\ UNCHANGED <<fn_vars, cam_vars, collections, scale_length, props, files, batch,
                   obj_info>>

\* what bpy.ops.render.render(write_still=True) can do
RenderOutcomes == {"ok", "RuntimeError", "KeyboardInterrupt"}

RenderActiveDone(ret) == [op |-> "render_active", ret |-> ret, counts |-> <<0, 0, 0>>]

\* lines 142-156: the file is skipped or rendered
RenderActiveFile(e, resolved) ==
    IF ~resolved[1]
    THEN /\ reports' = e.reports \o << <<"INFO", "skipped">> >>
         /\ result' = RenderActiveDone("FINISHED")
         /\ render' = e.render
         /\ UNCHANGED files
    ELSE /\ render' = [e.render EXCEPT !.filepath = resolved[2]]
         /\ \E outcome \in RenderOutcomes \ {"KeyboardInterrupt"} :
               IF outcome = "ok"
               THEN /\ files' = files \cup {resolved[2]}
                    /\ reports' = e.reports \o << <<"INFO", "rendered">> >>
                    /\ result' = RenderActiveDone("FINISHED")
               ELSE /\ reports' = e.reports
                    /\ result' = RenderActiveDone("EXCEPTION")
                    /\ UNCHANGED files

\* lines 130-140: the collection is looked up again and the file path resolved
RenderActiveOutput(e, collection, output_dir) ==
    IF collection = None
    THEN /\ reports' = e.reports \o << <<"ERROR", "no_valid_collection">> >>
         /\ result' = RenderActiveDone("CANCELLED")
         /\ render' = e.render
         /\ UNCHANGED files
    ELSE RenderActiveFile(e,
             resolve_output_filepath(
                 files,
                 Path(output_dir, get_output_filename(collection, props.collection_prefix), 0),
                 props.overwrite_mode))

\* lines 127-156, e being what bpy.ops.scale_render.eval() left.  A failed eval
\* (an ERROR report) raises RuntimeError in the caller.
RenderActiveAfterEval(e, output_dir) ==
    /\ camera' = e.camera
    /\ scene_camera' = e.scene_camera
    /\ rig' = e.rig
    /\ data_objects' = e.data_objects
    /\ active_object' = e.active_object
    /\ view_perspective' = e.view_perspective
    /\ IF e.ret # "FINISHED"
       THEN /\ reports' = e.reports
            /\ result' = RenderActiveDone("EXCEPTION")
            /\ render' = e.render
            /\ UNCHANGED files
       ELSE RenderActiveOutput(e,
                get_target_collection(collections, e.active_object, props.collection_prefix),
                output_dir)

\* lines 121-125 and on
RenderActiveChecked(path_check) ==
    IF ~path_check[1]
    THEN /\ reports' = << <<"ERROR", path_check[2]>> >>
         /\ result' = RenderActiveDone("CANCELLED")
         /\ UNCHANGED <<render, camera, scene_camera, rig, data_objects, active_object,
                        view_perspective, files>>
    ELSE RenderActiveAfterEval(SCALE_RENDER_OT_eval, path_check[3])

\* operators.py SCALE_RENDER_OT_render_active.execute, lines 118-156
RenderActive ==
    /\ batch = Missing
    /\ props.overwrite_mode = "INCREMENT" => Cardinality(files) + 1 <= MaxFiles
    /\ RenderActiveChecked(validate_output_path(props.output_folder))
    /\ calls' = IF validate_output_path(props.output_folder)[1]
                THEN EvalCalls(get_target_collection(collections, active_object,
                                                     props.collection_prefix))
                ELSE << >>
    /\ UNCHANGED <<fn_vars, cam_vars, collections, scale_length, props, batch, obj_info>>

RenderAllDone(ret, b) ==
    [op |-> "render_all", ret |-> ret, counts |-> <<b.successful, b.failed, b.skipped>>]

\* lines 176-209 for the matching collections
RenderAllStart(matched, path_check) ==
    /\ props.overwrite_mode = "INCREMENT" => Cardinality(files) + Len(matched) <= MaxFiles
    /\ IF matched = << >>
       THEN /\ reports' = << <<"ERROR", "no_collections_found">> >>
            /\ result' = [op |-> "render_all", ret |-> "CANCELLED", counts |-> <<0, 0, 0>>]
            /\ UNCHANGED <<render, camera, scene_camera, batch>>
       ELSE IF ~path_check[1]
       THEN /\ reports' = << <<"ERROR", path_check[2]>> >>
            /\ result' = [op |-> "render_all", ret |-> "CANCELLED", counts |-> <<0, 0, 0>>]
            /\ UNCHANGED <<render, camera, scene_camera, batch>>
       ELSE /\ render' = setup_render_settings(render)
            /\ camera' = get_or_create_camera(camera)
            /\ scene_camera' = CameraName
            /\ batch' = [collections |-> matched, output_dir |-> path_check[3],
                         i |-> 1, successful |-> 0, failed |-> 0, skipped |-> 0,
                         errors |-> << >>,
                         original_states |-> OriginalStates(collections, matched)]
            /\ reports' = << >>
            /\ result' = [op |-> "render_all", ret |-> "RUNNING", counts |-> <<0, 0, 0>>]

\* operators.py SCALE_RENDER_OT_render_all.execute, lines 170-209: up to the loop
RenderAllBegin ==
    /\ batch = Missing
    /\ RenderAllStart(get_filtered_collections(collections, props.collection_prefix),
                      validate_output_path(props.output_folder))
    /\ calls' = << >>
    /\ UNCHANGED <<fn_vars, cam_vars, collections, active_object, scale_length, props,
                   rig, data_objects, view_perspective, files, obj_info>>

\* a mutant: a failed collection ends the loop
BatchFailed_stops(collection, msg) ==
    [batch EXCEPT !.i = Len(batch.collections) + 1, !.failed = @ + 1,
                  !.errors = Append(@, <<collection, msg>>)]

\* errors.append(...); failed += 1; on to the next collection
BatchFailed(collection, msg) ==
    [batch EXCEPT !.i = @ + 1, !.failed = @ + 1,
                  !.errors = Append(@, <<collection, msg>>)]

\* what the body of the loop leaves up to the hand-off to the renderer: the scene
\* and the locals, "renders" telling whether the renderer is reached
GroupLeaves(colls, r, cam, lrig, b, renders) ==
    [collections |-> colls, render |-> r, camera |-> cam, rig |-> lrig,
     active_object |-> ActiveAfter(active_object, rig, lrig), batch |-> b,
     renders |-> renders]

\* lines 266-278: the file is skipped or handed to the renderer
RenderAllOutput(shown, render_set, framed, lit, resolved) ==
    IF ~resolved[1]
    THEN GroupLeaves(shown, render_set, framed, lit,
                     [batch EXCEPT !.i = @ + 1, !.skipped = @ + 1], FALSE)
    ELSE GroupLeaves(shown, [render_set EXCEPT !.filepath = resolved[2]], framed, lit,
                     batch, TRUE)

\* lines 263-271: the lighting is set up and the file path resolved
RenderAllLighting(collection, objects, shown, render_set, framed) ==
    IF SetupLightingRaises(objects)
    THEN GroupLeaves(shown, render_set, framed, show_light_rig(rig, TRUE),
                     BatchFailed(collection, "TypeError"), FALSE)
    ELSE RenderAllOutput(shown, render_set, framed,
             setup_lighting_for_collection(rig, objects, scale_length),
             resolve_output_filepath(
                 files,
                 Path(batch.output_dir,
                      get_output_filename(collection, props.collection_prefix), 0),
                 props.overwrite_mode))

\* lines 254-261: the camera is placed
RenderAllCamera(collection, objects, shown, render_set) ==
    IF CamRaises(objects, props.scale_factor, props.padding_px, scale_length)
    THEN GroupLeaves(shown, render_set, camera, rig,
                     BatchFailed(collection, "unexpected_error"), FALSE)
    ELSE RenderAllLighting(collection, objects, shown, render_set,
             Framed(camera, calculate_camera_position(objects, props.scale_factor,
                                                      props.padding_px, scale_length)))

\* lines 243-252: the resolution is validated and written
RenderAllResolution(collection, objects, shown, res, res_check) ==
    IF ~res_check[1]
    THEN GroupLeaves(shown, render, camera, rig, BatchFailed(collection, res_check[2]), FALSE)
    ELSE RenderAllCamera(collection, objects, shown,
                         [render EXCEPT !.resolution_x = res[1], !.resolution_y = res[2]])

\* lines 232-244: only this collection is shown, its resolution is calculated
RenderAllShown(collection, objects, shown, res) ==
    RenderAllResolution(collection, objects, shown, res, validate_resolution(res[1], res[2]))

\* lines 217-241: the checks of the collection
RenderAllChecks(collection, objects, dim_check) ==
    IF get_primary_object(objects) = None
    THEN GroupLeaves(collections, render, camera, rig,
                     BatchFailed(collection, "no_mesh_objects"), FALSE)
    ELSE IF ~dim_check[1]
    THEN GroupLeaves(collections, render, camera, rig,
                     BatchFailed(collection, dim_check[2]), FALSE)
    ELSE RenderAllShown(collection, objects,
                        set_collection_visibility(collections, collection, batch.collections),
                        ResolutionOfDims(get_collection_dimensions(objects, scale_length),
                                         props.scale_factor, props.padding_px))

\* lines 212-278 for one collection of the batch
RenderAllCollection(collection) ==
    RenderAllChecks(collection, CollObjects(collections, collection),
                    validate_collection_dimensions(CollObjects(collections, collection),
                                                   scale_length))

\* lines 212-278: the body of the loop for batch.collections[batch.i] up to the
\* hand-off to the renderer
RenderAllPrepare == RenderAllCollection(batch.collections[batch.i])

\* lines 280-304: the renderer, if it is reached, writes the file, raises
\* RuntimeError or is interrupted from the keyboard
RenderAllRendered(g, collection) ==
    /\ render' = g.render
    /\ camera' = g.camera
    /\ active_object' = g.active_object
    /\ IF ~g.renders
       THEN /\ batch' = g.batch
            /\ collections' = g.collections
            /\ rig' = g.rig
            /\ data_objects' = ObjectsAfter(data_objects, rig, g.rig)
            /\ UNCHANGED <<files, reports, result>>
       ELSE \E outcome \in RenderOutcomes :
              IF outcome = "ok"
              THEN /\ files' = files \cup {g.render.filepath}
                   /\ batch' = [batch EXCEPT !.i = @ + 1, !.successful = @ + 1]
                   /\ collections' = g.collections
                   /\ rig' = g.rig
                   /\ data_objects' = ObjectsAfter(data_objects, rig, g.rig)
                   /\ UNCHANGED <<reports, result>>
              ELSE IF outcome = "RuntimeError"
              THEN /\ batch' = BatchFailed(collection, "RuntimeError")
                   /\ collections' = g.collections
                   /\ rig' = g.rig
                   /\ data_objects' = ObjectsAfter(data_objects, rig, g.rig)
                   /\ UNCHANGED <<files, reports, result>>
              ELSE /\ batch' = Missing
                   /\ reports' = << <<"WARNING", "batch_cancelled">> >>
                   /\ collections' = restore_collection_visibility(
                                         g.collections, batch.collections,
                                         batch.original_states)
                   /\ rig' = show_light_rig(g.rig, TRUE)
                   /\ data_objects' = ObjectsAfter(data_objects, rig,
                                                   show_light_rig(g.rig, TRUE))
                   /\ result' = RenderAllDone("CANCELLED", batch)
                   /\ UNCHANGED files

\* one pass of the loop of Render All (lines 212-304)
RenderAllGroup ==
    /\ batch # Missing
    /\ batch.i <= Len(batch.collections)
    /\ RenderAllRendered(RenderAllPrepare, batch.collections[batch.i])
    /\ calls' = calls \o RenderAllCalls(batch.collections[batch.i])
    /\ UNCHANGED <<fn_vars, cam_vars, scale_length, props, scene_camera, view_perspective,
                   obj_info>>

\* lines 306-328: after the loop
RenderAllEnd ==
    /\ batch # Missing
    /\ batch.i > Len(batch.collections)
    /\ collections' = restore_collection_visibility(collections, batch.collections,
                                                    batch.original_states)
    /\ rig' = show_light_rig(rig, TRUE)
    /\ data_objects' = data_objects \o ShowRigMade(rig, TRUE)
    /\ active_object' = ActiveAfter(active_object, rig, show_light_rig(rig, TRUE))
    /\ reports' = << <<"INFO", "batch_complete">> >>
    /\ result' = RenderAllDone("FINISHED", batch)
    /\ batch' = Missing
    /\ UNCHANGED <<fn_vars, cam_vars, scale_length, props, render, camera, scene_camera,
                   view_perspective, files, calls, obj_info>>

\* a KeyboardInterrupt raised outside the try block of lines 216-304: at the loop
\* header and the progress lines 212-214, or at lines 306-307 after the loop.  No
\* handler of execute catches it; the operator is left by the exception
RenderAllInterrupted ==
    /\ batch # Missing
    /\ batch' = Missing
    /\ result' = RenderAllDone("KeyboardInterrupt", batch)
    /\ UNCHANGED <<fn_vars, cam_vars, collections, active_object, scale_length, props,
                   render, camera, scene_camera, rig, data_objects, view_perspective,
                   files, reports, calls, obj_info>>

\* line 115 of SCALE_RENDER_PT_main_panel.draw for the properties p: what the draw
\* gets from get_selected_collection_info, and the calls made for it
PanelDraw(p) ==
    /\ obj_info' = get_selected_collection_info(collections, p, scale_length)
    /\ calls' = PanelCalls(collections, p, scale_length)

\* panel.py SCALE_RENDER_OT_select_collection.execute, lines 24-40, for an entry of
\* the collection menu (lines 50-69), and the redraw of the panel it asks for
\* (lines 36-38)
SelectCollection(collection_name) ==
    /\ batch = Missing
    /\ props' = [props EXCEPT !.selected_collection = collection_name]
    /\ collections' = set_collection_visibility(
                          collections, collection_name,
                          get_filtered_collections(collections, props.collection_prefix))
    /\ result' = [op |-> "select_collection", ret |-> "FINISHED", counts |-> <<0, 0, 0>>]
    /\ reports' = << >>
    /\ PanelDraw([props EXCEPT !.selected_collection = collection_name])
    /\ UNCHANGED <<fn_vars, cam_vars, active_object, scale_length, render, camera,
                   scene_camera, rig, data_objects, view_perspective, files, batch>>

SCALE_RENDER_OT_select_collection ==
    \E k \in 1..Len(get_filtered_collections(collections, props.collection_prefix)) :
        SelectCollection(get_filtered_collections(collections, props.collection_prefix)[k])

Next ==
    \/ SelectObject
    \/ Eval
    \/ RenderActive
    \/ RenderAllBegin
    \/ RenderAllGroup
    \/ RenderAllEnd
    \/ RenderAllInterrupted
    \/ SCALE_RENDER_OT_select_collection

Spec == Init /\ [][Next]_vars

(***************************************************************************)
(* Properties of the resolution calculator and the validation layer        *)
(* (SpecFn).                                                               *)
(***************************************************************************)
ResCallDone == call.fn = "calculate_resolution" /\ call.out # None

\* q is the floor of n / d
IsFloor(q, n, d) == q * d <= n /\ n < (q + 1) * d

\* C1: for width_mm >= 0, height_mm >= 0, scale_factor > 0 and padding_px >= 0
\* calculate_resolution returns (floor(width_mm * scale_factor) + 2 * padding_px,
\* floor(height_mm * scale_factor) + 2 * padding_px); 100 mm x 200 mm at 10 px/mm
\* with padding 10 gives (1020, 2020).
C1_ResolutionIsFloorPlusPadding ==
    (/\ ResCallDone
     /\ call.width_mm >= 0 /\ call.height_mm >= 0
     /\ call.scale_factor > 0 /\ call.padding_px >= 0)
    => /\ IsFloor(call.out[1] - 2 * call.padding_px,
                  call.width_mm * call.scale_factor, MmUnit * SfUnit)
       /\ IsFloor(call.out[2] - 2 * call.padding_px,
                  call.height_mm * call.scale_factor, MmUnit * SfUnit)
       /\ (/\ call.width_mm = 100 * MmUnit /\ call.height_mm = 200 * MmUnit
           /\ call.scale_factor = 10 * SfUnit /\ call.padding_px = 10)
          => call.out = <<1020, 2020>>

C1_Witness ==
    /\ ResCallDone
    /\ call.width_mm = 100 * MmUnit /\ call.height_mm = 200 * MmUnit
    /\ call.scale_factor = 10 * SfUnit /\ call.padding_px = 10
    /\ call.out = <<1020, 2020>>

PairGeq(a, b) == a[1] >= b[1] /\ a[2] >= b[2]

\* C2: for non-negative dimensions and positive scale factors, raising any one of
\* width_mm, height_mm, scale_factor, padding_px with the others fixed never
\* lowers either returned pixel dimension.
C2_ResolutionMonotone ==
    (/\ ResCallDone
     /\ call.width_mm >= 0 /\ call.height_mm >= 0 /\ call.scale_factor > 0)
    => /\ \A w \in ResMm : w >= call.width_mm =>
            PairGeq(calculate_resolution(w, call.height_mm, call.scale_factor,
                                         call.padding_px), call.out)
       /\ \A h \in ResMm : h >= call.height_mm =>
            PairGeq(calculate_resolution(call.width_mm, h, call.scale_factor,
                                         call.padding_px), call.out)
       /\ \A sf \in ResScale : sf >= call.scale_factor =>
            PairGeq(calculate_resolution(call.width_mm, call.height_mm, sf,
                                         call.padding_px), call.out)
       /\ \A p \in ResPadding : p >= call.padding_px =>
            PairGeq(calculate_resolution(call.width_mm, call.height_mm,
                                         call.scale_factor, p), call.out)

C2_Witness ==
    /\ ResCallDone
    /\ call.width_mm = 1234 /\ call.height_mm = 55
    /\ call.scale_factor = 25 /\ call.padding_px = 0
    /\ call.out = <<30, 1>>

DimsCallDone == call.fn = "validate_collection_dimensions" /\ call.out # None

\* the (width, height, depth) the validated collection has, in MmUnit steps
CallDims == get_collection_dimensions(call.objects, call.unit_scale)

\* C8: validate_collection_dimensions: invalid-dimensions if any axis <= 0;
\* otherwise too-small if width < 1 or height < 1 (a depth below 1 mm alone is
\* not too-small); otherwise too-large if any axis > 10000; otherwise valid with
\* an empty message.  (0.5, 50, 50) is too-small, (11000, 50, 50) too-large,
\* (50, 50, 50) passes.
C8_DimensionValidationPrecedence ==
    DimsCallDone =>
        LET width == CallDims[1]
            height == CallDims[2]
            depth == CallDims[3]
            nonpos == width <= 0 \/ height <= 0 \/ depth <= 0
            small == width < 1 * MmUnit \/ height < 1 * MmUnit
            large == \/ width > 10000 * MmUnit
                     \/ height > 10000 * MmUnit
                     \/ depth > 10000 * MmUnit
        IN  /\ nonpos => call.out = <<FALSE, "invalid_dimensions">>
            /\ (~nonpos /\ small) => call.out = <<FALSE, "too_small">>
            /\ (~nonpos /\ ~small /\ large) => call.out = <<FALSE, "too_large">>
            /\ (~nonpos /\ ~small /\ ~large) => call.out = <<TRUE, "">>
            /\ CallDims = <<50, 50 * MmUnit, 50 * MmUnit>>
                  => call.out = <<FALSE, "too_small">>
            /\ CallDims = <<11000 * MmUnit, 50 * MmUnit, 50 * MmUnit>>
                  => call.out = <<FALSE, "too_large">>
            /\ CallDims = <<50 * MmUnit, 50 * MmUnit, 50 * MmUnit>>
                  => call.out = <<TRUE, "">>

\* width and height 50 mm, depth 0.5 mm: valid
C8_Witness ==
    /\ DimsCallDone
    /\ CallDims = <<50 * MmUnit, 50 * MmUnit, 50>>
    /\ call.out = <<TRUE, "">>

ResValCallDone == call.fn = "validate_resolution" /\ call.out # None

\* C9: validate_resolution(w, h): too large if w > 16384 or h > 16384; otherwise
\* too small if w < 1 or h < 1; otherwise valid with a warning if w > 8192 or
\* h > 8192; otherwise valid with an empty message.  (20000, 1000) is too large,
\* (0, 1000) too small, (9000, 9000) passes with a warning; too-large wins when
\* one axis is too large and the other too small.
C9_ResolutionValidationPrecedence ==
    ResValCallDone =>
        LET w == call.width_px
            h == call.height_px
            large == w > 16384 \/ h > 16384
            small == w < 1 \/ h < 1
            warn == w > 8192 \/ h > 8192
        IN  /\ large => call.out = <<FALSE, "resolution_too_large">>
            /\ (~large /\ small) => call.out = <<FALSE, "resolution_too_small">>
            /\ (~large /\ ~small /\ warn) => (call.out[1] = TRUE /\ call.out[2] # "")
            /\ (~large /\ ~small /\ ~warn) => call.out = <<TRUE, "">>
            /\ (w = 20000 /\ h = 1000) => call.out = <<FALSE, "resolution_too_large">>
            /\ (w = 0 /\ h = 1000) => call.out = <<FALSE, "resolution_too_small">>
            /\ (w = 9000 /\ h = 9000) => call.out = <<TRUE, "warning_large_resolution">>

\* one axis too large, the other too small
C9_Witness ==
    /\ ResValCallDone
    /\ call.width_px = 20000 /\ call.height_px = 0
    /\ call.out = <<FALSE, "resolution_too_large">>

\* a validator's result is one of: invalid with a message, valid with a warning,
\* valid with an empty message
TriState(out) ==
    /\ out[1] \in BOOLEAN
    /\ \/ ~out[1] /\ out[2] # ""
       \/ out[1] /\ out[2] # ""
       \/ out[1] /\ out[2] = ""

\* C11: validate_collection_dimensions and validate_resolution leave the scene state
\* (render settings, camera, light rig, collection visibility) as it was, and
\* every call yields one of three outcomes: invalid with a non-empty message,
\* valid with a non-empty warning, valid with an empty message.
C11_ValidatorsArePureTriState ==
    /\ [][(/\ call.fn \in {"validate_collection_dimensions", "validate_resolution"}
            /\ call.out = None
            /\ call'.out # None)
           => /\ UNCHANGED <<render, camera, scene_camera, rig, collections>>
              /\ UNCHANGED addon_vars]_addon_vars
    /\ []((DimsCallDone \/ ResValCallDone) => TriState(call.out))

\* validate_resolution has passed 8193 x 1000 with the warning
C11_Witness ==
    /\ ResValCallDone
    /\ call.width_px = 8193 /\ call.height_px = 1000
    /\ call.out[1] /\ call.out[2] # ""
    /\ AddonIdle

(***************************************************************************)
(* Properties of the camera solver (SpecCam).                              *)
(***************************************************************************)
\* the group has a mesh part whose name does not start with "_"
HasEligiblePart(objects) ==
    \E i \in 1..Len(objects) :
        objects[i].type = "MESH" /\ objects[i].name[1] # "_"

CamDone == cam_pc = "done"

\* the corners, seen from cam_location looking at the box center
CornerForward(cx, cam_location, i) ==
    ForwardDist(cx.bbox_corners[i], cam_location, LookDirection(cx.center, cam_location))

CornerHAngle(cx, cam_location, i) ==
    AbsAngle(HorizontalOffset(cx.bbox_corners[i], cam_location),
             CornerForward(cx, cam_location, i))

CornerVAngle(cx, cam_location, i) ==
    AbsAngle(VerticalOffset(cx.bbox_corners[i], cam_location),
             CornerForward(cx, cam_location, i))

\* every corner in front of the camera, and the largest horizontal and vertical
\* angles within 0.98 of the half fields of view
FrameHolds(cx, cam_location) ==
    /\ \A i \in 1..8 : CornerForward(cx, cam_location, i) > 0
    /\ SetMax({CornerHAngle(cx, cam_location, i) : i \in 1..8}) * 100 <= cx.half_fov_h * 98
    /\ SetMax({CornerVAngle(cx, cam_location, i) : i \in 1..8}) * 100 <= cx.half_fov_v * 98

\* C3 (as claimed): whenever the function returns for a present bounding box,
\* converged or not, every padded corner is in front of the returned camera
\* location and within 0.98 of the half field of view on both axes.
C3_FinalFrameHoldsAlways ==
    (CamDone /\ HasEligiblePart(cam_in.objects)) => FrameHolds(cam_cx, cam_out.location)

\* the pole at 2.5 px/mm: the function has returned with a corner behind the camera
C3_Witness ==
    /\ CamDone
    /\ HasEligiblePart(cam_in.objects)
    /\ cam_in.scale_factor = 25
    /\ cam_checks = max_iterations
    /\ \E i \in 1..8 : CornerForward(cam_cx, cam_out.location, i) <= 0

\* C4: the loop ends after at most max_iterations (20) visibility checks, by the
\* iteration bound alone: also when no distance passes the test.
\* Stated with the loop counter as the variant: every pass either leaves the loop or
\* raises iteration by one, and iteration stays below max_iterations inside the loop.
C4_LoopTerminatesWithinBound ==
    /\ [](/\ cam_checks <= max_iterations
          /\ (cam_pc = "loop" => iteration = cam_checks /\ iteration < max_iterations))
    /\ [][cam_pc = "loop" =>
            \/ cam_pc' = "final"
            \/ cam_pc' = "loop" /\ iteration' = iteration + 1]_vars

\* the loop ran out: 20 checks, none passed
C4_Witness ==
    /\ CamDone
    /\ cam_checks = max_iterations
    /\ ~all_corners_visible

\* passes whose visibility test failed, once the loop is over
CamFails == IF all_corners_visible THEN cam_checks - 1 ELSE cam_checks

\* 1.10^k in FP steps, k = 0..20
Pow110 ==
    <<10000, 11000, 12100, 13310, 14641, 16105, 17716, 19487, 21436, 23579, 25937,
      28531, 31384, 34523, 37975, 41772, 45950, 50545, 55599, 61159, 67275>>

\* seed * 1.10^k * 1.05
ClosedFormDistance(seed, k) == MulFP(MulFP(seed, Pow110[k + 1]), 10500)

\* what the roundings of k + 1 fixed-point steps can add up to, in ticks
RoundingSlack(seed, k) == 2 + (6 * (Pow110[k + 1] - FP)) \div FP + seed \div 2000

\* C5: camera_distance never decreases, and the distance of the returned location
\* is seed * 1.10^k * 1.05 (up to the rounding of the fixed-point steps), k the
\* number of failed passes, 0 <= k <= 20: the 1.05 is applied once, converged or not.
C5_DistanceGrowsToClosedForm ==
    /\ [][camera_distance' >= camera_distance]_vars
    /\ []((CamDone /\ HasEligiblePart(cam_in.objects)) =>
            /\ CamFails \in 0..20
            /\ Abs(camera_distance - ClosedFormDistance(cam_seed, CamFails))
                   <= RoundingSlack(cam_seed, CamFails)
            /\ cam_out.location[2] = cam_cx.object_front_y - camera_distance)

\* converged after some failed passes
C5_Witness ==
    /\ CamDone
    /\ all_corners_visible
    /\ cam_checks >= 4
    /\ cam_seed >= 2000

\* C6: a pass ends the loop exactly when all 8 corners are in front of the camera
\* and within the 0.98 margins; in any other pass (a corner behind the camera, or
\* a corner outside a margin) the distance is multiplied by 1.10 and, while passes
\* remain, the test is repeated.
C6_LoopStopsAtFirstVisiblePass ==
    [][cam_pc = "loop" =>
          IF FrameHolds(cam_cx, CamLocation(cam_cx, camera_distance))
          THEN /\ cam_pc' = "final"
               /\ camera_distance' = camera_distance
               /\ all_corners_visible'
          ELSE /\ camera_distance' = RoundDiv(camera_distance * 110, 100)
               /\ ~all_corners_visible'
               /\ cam_checks < max_iterations - 1 => cam_pc' = "loop"
               /\ cam_pc' \in {"loop", "final"}]_vars

\* a pass has failed and a corner is behind the camera at the new distance
C6_Witness ==
    /\ cam_pc = "loop"
    /\ cam_checks >= 1
    /\ \E i \in 1..8 : CornerForward(cam_cx, CamLocation(cam_cx, camera_distance), i) <= 0

\* C7: with no eligible geometry the function does not fail and returns the fixed
\* fallback frame, location (0, -1, 0.5) and rotation (78 degrees, 0, 0), whatever
\* scale_factor and padding_px are, without running the loop.
C7_FallbackFrame ==
    ~HasEligiblePart(cam_in.objects) =>
        /\ cam_pc \in {"start", "done"}
        /\ cam_checks = 0
        /\ CamDone =>
              /\ cam_out.location = <<0, -TickPerBU, TickPerBU \div 2>>
              /\ cam_out.rotation = <<(78 * 2 * HalfPi) \div 180, 0, 0>>

\* returned for a group holding only a helper mesh and a light
C7_Witness ==
    /\ CamDone
    /\ Len(cam_in.objects) = 2
    /\ ~HasEligiblePart(cam_in.objects)
    /\ cam_in.padding_px = 10
    /\ cam_out.location = <<0, -TickPerBU, TickPerBU \div 2>>

(***************************************************************************)
(* Properties of the geometry aggregation (SpecGeom).                      *)
(***************************************************************************)
BoundsCallDone == call.fn = "get_collection_bounds" /\ call.done

\* a part get_collection_bounds takes into account
IsEligible(p) == p.type = "MESH" /\ ~StartsWith(p.name, <<"_">>)

\* the result (None, None, [])
Absent(b) == b.min_corner = None

IsAbsentResult(b) == Absent(b) /\ b.max_corner = None /\ b.mesh_objects = << >>

SameBounds(a, b) ==
    /\ Absent(a) <=> Absent(b)
    /\ ~Absent(a) => /\ a.min_corner = b.min_corner
                     /\ a.max_corner = b.max_corner
    /\ a.mesh_objects = b.mesh_objects

\* objects with p put after position i, without position i, with p at position i
InsertAt(objects, i, p) ==
    SubSeq(objects, 1, i) \o <<p>> \o SubSeq(objects, i + 1, Len(objects))

RemoveAt(objects, i) == SubSeq(objects, 1, i - 1) \o SubSeq(objects, i + 1, Len(objects))

ReplaceAt(objects, i, p) == [objects EXCEPT ![i] = p]

IneligibleParts == {p \in GeomParts : ~IsEligible(p)}

\* C17: get_collection_bounds considers only the parts of type MESH whose name does
\* not start with "_": putting a part that is not a mesh or is named "_..." into the
\* group at any place, taking one out, or exchanging one for another one placed
\* elsewhere leaves the result as it is, and the result is (None, None, []) exactly
\* when the group has no eligible part.
C17_BoundsIgnoreIneligibleParts ==
    BoundsCallDone =>
        /\ \A p \in IneligibleParts :
              /\ \A i \in 0..Len(call.objects) :
                    SameBounds(get_collection_bounds(InsertAt(call.objects, i, p)), call.out)
              /\ \A i \in 1..Len(call.objects) :
                    ~IsEligible(call.objects[i]) =>
                        SameBounds(get_collection_bounds(ReplaceAt(call.objects, i, p)),
                                   call.out)
        /\ \A i \in 1..Len(call.objects) :
              ~IsEligible(call.objects[i]) =>
                  SameBounds(get_collection_bounds(RemoveAt(call.objects, i)), call.out)
        /\ IsAbsentResult(call.out) <=> ~HasEligiblePart(call.objects)
        /\ Absent(call.out) <=> ~HasEligiblePart(call.objects)

\* a group of a helper mesh and a cube, measured
C17_Witness ==
    /\ BoundsCallDone
    /\ Len(call.objects) = 2
    /\ call.objects[1].type = "MESH"
    /\ StartsWith(call.objects[1].name, <<"_">>)
    /\ IsEligible(call.objects[2])
    /\ ~Absent(call.out)
    /\ call.out.mesh_objects = <<call.objects[2]>>

\* the positions of the eligible parts of objects
EligibleAt(objects) == {i \in 1..Len(objects) : IsEligible(objects[i])}

\* v is the least (greatest) coordinate on axis over every corner of every eligible part
IsAxisMin(v, objects, axis) ==
    /\ \E i \in EligibleAt(objects) : \E k \in 1..8 : objects[i].world_corners[k][axis] = v
    /\ \A i \in EligibleAt(objects) : \A k \in 1..8 : v <= objects[i].world_corners[k][axis]

IsAxisMax(v, objects, axis) ==
    /\ \E i \in EligibleAt(objects) : \E k \in 1..8 : objects[i].world_corners[k][axis] = v
    /\ \A i \in EligibleAt(objects) : \A k \in 1..8 : v >= objects[i].world_corners[k][axis]

InsideBox(c, b) ==
    \A axis \in 1..3 : b.min_corner[axis] <= c[axis] /\ c[axis] <= b.max_corner[axis]

SwapAt(objects, i, j) == [objects EXCEPT ![i] = objects[j], ![j] = objects[i]]

SameBox(a, b) ==
    /\ Absent(a) <=> Absent(b)
    /\ ~Absent(a) => /\ a.min_corner = b.min_corner
                     /\ a.max_corner = b.max_corner
    /\ {a.mesh_objects[k] : k \in 1..Len(a.mesh_objects)}
         = {b.mesh_objects[k] : k \in 1..Len(b.mesh_objects)}

\* C18: for a group with an eligible part get_collection_bounds returns, on every
\* axis, the least and the greatest coordinate over all world corners of all eligible
\* parts; so min <= max on every axis, every corner of every eligible part is inside
\* the box, and the box is the same for every order of the parts.
C18_BoundsAreCornerEnvelope ==
    (BoundsCallDone /\ HasEligiblePart(call.objects)) =>
        /\ ~Absent(call.out)
        /\ \A axis \in 1..3 :
              /\ IsAxisMin(call.out.min_corner[axis], call.objects, axis)
              /\ IsAxisMax(call.out.max_corner[axis], call.objects, axis)
              /\ call.out.min_corner[axis] <= call.out.max_corner[axis]
        /\ \A i \in EligibleAt(call.objects) : \A k \in 1..8 :
              InsideBox(call.objects[i].world_corners[k], call.out)
        /\ \A i, j \in 1..Len(call.objects) :
              SameBox(get_collection_bounds(SwapAt(call.objects, i, j)), call.out)

\* two eligible parts measured, the bottom of the box set by the first one alone and
\* the top by the second one alone
C18_Witness ==
    /\ BoundsCallDone
    /\ Len(call.objects) = 2
    /\ EligibleAt(call.objects) = {1, 2}
    /\ \A k \in 1..8 : call.objects[2].world_corners[k][3] > call.out.min_corner[3]
    /\ \A k \in 1..8 : call.objects[1].world_corners[k][3] < call.out.max_corner[3]

GeomCallDone == call.fn \in {"get_collection_bounds", "get_collection_center",
                             "get_collection_dimensions"} /\ call.done

\* what the function fn returns for objects
GeomValue(fn, objects, unit_scale) ==
    CASE fn = "get_collection_bounds" -> get_collection_bounds(objects)
      [] fn = "get_collection_center" -> get_collection_center(objects)
      [] fn = "get_collection_dimensions" -> get_collection_dimensions(objects, unit_scale)

\* two values of the function fn are equal
EqualValues(fn, a, b) ==
    CASE fn = "get_collection_bounds" -> SameBounds(a, b)
      [] fn = "get_collection_center" -> /\ (a = None) <=> (b = None)
                                         /\ (a # None) => (a = b)
      [] fn = "get_collection_dimensions" -> a = b

\* the groups whose eligible parts span a box of no extent
ZeroSizeGroups ==
    {g \in GeomGroups : /\ HasEligiblePart(g)
                        /\ get_collection_bounds(g).min_corner
                             = get_collection_bounds(g).max_corner}

\* C19 as stated: for each of get_collection_bounds, get_collection_center and
\* get_collection_dimensions the value returned for a group without eligible parts
\* differs from the value returned for every group whose eligible parts span a
\* zero-size box.
C19_AbsentDiffersFromZeroSize ==
    (GeomCallDone /\ ~HasEligiblePart(call.objects)) =>
        \A g \in ZeroSizeGroups :
            ~EqualValues(call.fn, call.out, GeomValue(call.fn, g, call.unit_scale))

\* C19: get_collection_bounds and get_collection_center report a group without
\* eligible parts as None, which no group with a zero-size box gives, while
\* get_collection_dimensions returns (0, 0, 0) for a group without eligible parts and
\* for a group with a zero-size box alike.
C19_AbsentDiffersExceptDimensions ==
    (GeomCallDone /\ ~HasEligiblePart(call.objects)) =>
        /\ call.fn = "get_collection_bounds" =>
              /\ IsAbsentResult(call.out)
              /\ \A g \in ZeroSizeGroups :
                    ~EqualValues(call.fn, call.out, GeomValue(call.fn, g, call.unit_scale))
        /\ call.fn = "get_collection_center" =>
              /\ call.out = None
              /\ \A g \in ZeroSizeGroups :
                    ~EqualValues(call.fn, call.out, GeomValue(call.fn, g, call.unit_scale))
        /\ call.fn = "get_collection_dimensions" =>
              /\ call.out = <<0, 0, 0>>
              /\ \A g \in ZeroSizeGroups :
                    EqualValues(call.fn, call.out, GeomValue(call.fn, g, call.unit_scale))

\* the dimensions of a group holding only a helper mesh, equal to those of a group
\* holding a one-point mesh
C19_Witness ==
    /\ call.fn = "get_collection_dimensions"
    /\ call.done
    /\ Len(call.objects) = 1
    /\ ~HasEligiblePart(call.objects)
    /\ \E g \in ZeroSizeGroups : call.out = get_collection_dimensions(g, call.unit_scale)

(***************************************************************************)
(* Properties of the light rig (SpecLight).                                *)
(***************************************************************************)
\* the call made last was a scaling of the rig for call.objects that returned
ScaledForCall ==
    /\ call.fn \in {"scale_light_rig_for_collection", "setup_lighting_for_collection"}
    /\ ~call.raised
    /\ call.fn = "setup_lighting_for_collection" => ~collection_has_lights(call.objects)

\* the height of the group in MmUnit steps
HeightOf(objects) == get_collection_dimensions(objects, scale_length)[2]

\* s (in FP steps) is height / 200 mm clamped to [0.1, 20.0], to the nearest step
IsClampOf(s, height) ==
    IF height * 10 < REFERENCE_HEIGHT * MmUnit THEN s = FP \div 10
    ELSE IF height > 20 * REFERENCE_HEIGHT * MmUnit THEN s = 20 * FP
    ELSE 2 * Abs(s * REFERENCE_HEIGHT - height * (FP \div MmUnit)) <= REFERENCE_HEIGHT

\* the rig has one scale on its three axes, within [0.1, 20.0]
UniformScaleInRange(r) ==
    /\ r.scale[1] = r.scale[2] /\ r.scale[2] = r.scale[3]
    /\ FP \div 10 <= r.scale[1] /\ r.scale[1] <= 20 * FP

IsCenterOf(loc, objects) ==
    LET b == get_collection_bounds(objects)
    IN  \A axis \in 1..3 :
            Abs(2 * loc[axis] - (b.min_corner[axis] + b.max_corner[axis])) <= 1

\* energy (in EnergyUnit steps) is base * s^2 for the scale s (in FP steps), up to
\* the rounding of s^2 to the EnergyUnit step
IsBaseTimesSquare(energy, base, s) ==
    LET m == energy \div base
        sc == s \div 100
        r == s % 100
    IN  /\ energy % base = 0
        /\ Abs(m * 100 - sc * sc) <= 51 + (2 * sc * r) \div 100

\* the three lights carry base * s^2
EnergiesFollow(r) ==
    /\ IsBaseTimesSquare(r.children.Key.energy, BASE_KEY_ENERGY, r.scale[1])
    /\ IsBaseTimesSquare(r.children.Fill.energy, BASE_FILL_ENERGY, r.scale[1])
    /\ IsBaseTimesSquare(r.children.Rim.energy, BASE_RIM_ENERGY, r.scale[1])

\* the three lights have size 2.0 * s
SizesFollow(r) ==
    /\ r.children.Key.size = 2 * r.scale[1]
    /\ r.children.Fill.size = 2 * r.scale[1]
    /\ r.children.Rim.size = 2 * r.scale[1]

\* the energies of the three lights are k times the base energies
EnergiesAre(r, k) ==
    /\ r.children.Key.energy = k * BASE_KEY_ENERGY * EnergyUnit
    /\ r.children.Fill.energy = k * BASE_FILL_ENERGY * EnergyUnit
    /\ r.children.Rim.energy = k * BASE_RIM_ENERGY * EnergyUnit

\* C13: after scale_light_rig_for_collection on a group with a bounding box the rig
\* is at the center of the box, every light has energy base * scale^2 (bases 1000,
\* 300, 500) and size 2.0 * scale; a group of the reference height gives scale 1.0
\* and the base energies, one of twice that height scale 2.0 and four times the
\* base energies.
C13_ScaledRigFollowsGroup ==
    ScaledForCall =>
        /\ IsCenterOf(rig.location, call.objects)
        /\ EnergiesFollow(rig)
        /\ SizesFollow(rig)
        /\ HeightOf(call.objects) = REFERENCE_HEIGHT * MmUnit
               => (rig.scale = <<FP, FP, FP>> /\ EnergiesAre(rig, 1))
        /\ HeightOf(call.objects) = 2 * REFERENCE_HEIGHT * MmUnit
               => (rig.scale = <<2 * FP, 2 * FP, 2 * FP>> /\ EnergiesAre(rig, 4))

\* scaled for the 400 mm group
C13_Witness ==
    /\ ScaledForCall
    /\ call.fn = "scale_light_rig_for_collection"
    /\ HeightOf(call.objects) = 2 * REFERENCE_HEIGHT * MmUnit
    /\ rig.location = <<0, 0, 2000>>
    /\ EnergiesAre(rig, 4)

\* the rig as get_or_create_light_rig builds it: scale 1.0, the base energies, and
\* the sizes 2.0, 3.0 and 1.5 of lines 30-32
AsCreated(r) ==
    /\ r.scale = <<FP, FP, FP>>
    /\ r.location = <<0, 0, 0>>
    /\ EnergiesAre(r, 1)
    /\ r.children.Key.size = KEY_LIGHT_SIZE
    /\ r.children.Fill.size = FILL_LIGHT_SIZE
    /\ r.children.Rim.size = RIM_LIGHT_SIZE

\* C14 (as claimed): in every state in which the rig exists, also right after its
\* creation and before any scaling, every light has energy base * s^2 and size
\* 2.0 * s for the scale s of the rig, and s is within [0.1, 20.0].
C14_LightsFollowScaleAlways ==
    rig # Missing =>
        /\ UniformScaleInRange(rig)
        /\ EnergiesFollow(rig)
        /\ SizesFollow(rig)

\* C14 (amended): in every state in which the rig exists s is within [0.1, 20.0]
\* and every light has energy base * s^2; the sizes are 2.0 * s once a scaling call
\* has returned and from then on, while a rig that was created and never scaled
\* has scale 1.0 and the sizes 2.0 (key), 3.0 (fill) and 1.5 (rim).
C14_LightsFollowScaleOnceScaled ==
    /\ [](rig # Missing =>
            /\ UniformScaleInRange(rig)
            /\ EnergiesFollow(rig)
            /\ SizesFollow(rig) \/ AsCreated(rig))
    /\ [](ScaledForCall => SizesFollow(rig))
    /\ [][(rig # Missing /\ SizesFollow(rig)) => SizesFollow(rig')]_vars
    /\ [][(rig = Missing /\ rig' # Missing /\ call'.fn = "show_light_rig")
             => (AsCreated(rig') /\ ~SizesFollow(rig'))]_vars

\* the rig was built by show_light_rig and has not been scaled: the fill light has
\* size 3.0 at scale 1.0
C14_Witness ==
    /\ call.fn = "show_light_rig"
    /\ rig # Missing
    /\ rig.scale = <<FP, FP, FP>>
    /\ rig.children.Fill.size = 3 * FP
    /\ rig.children.Rim.size # 2 * rig.scale[1]

\* how many objects of bpy.data.objects were created under the name
CountOf(name) == Cardinality({k \in 1..Len(data_objects) : data_objects[k] = name})

\* C15: the default rig is a singleton: after any sequence of calls at most one rig
\* parent exists, and when it exists it has exactly the three lights key, fill and
\* rim; the rig is created by the first call that needs it, and every later call
\* works on those objects and creates none.
C15_RigIsSingleton ==
    /\ [](/\ CountOf(LIGHT_RIG_NAME) <= 1
          /\ (rig = Missing) = (data_objects = << >>)
          /\ rig # Missing =>
                /\ data_objects = RigObjectNames
                /\ DOMAIN rig.children = {"Key", "Fill", "Rim"}
                /\ \A k \in 1..4 : CountOf(RigObjectNames[k]) = 1)
    /\ [][rig # Missing => (rig' # Missing /\ data_objects' = data_objects)]_vars
    /\ [][(rig = Missing /\ rig' # Missing) => data_objects' = RigObjectNames]_vars

\* a rig that was built, hidden and then scaled for a group: still the four objects
C15_Witness ==
    /\ call.fn = "scale_light_rig_for_collection"
    /\ ~call.raised
    /\ rig.hide_render
    /\ rig.scale[1] = 2 * FP
    /\ data_objects = RigObjectNames

\* the rig parent and its three lights are all hidden (h = TRUE) or all shown
\* (h = FALSE), in the viewport and in renders
AllHidden(r, h) ==
    /\ r.hide_viewport = h /\ r.hide_render = h
    /\ \A c \in DOMAIN r.children :
           r.children[c].hide_viewport = h /\ r.children[c].hide_render = h

\* location, scale and the energy and size of every light are the same in r and q
SamePlacement(r, q) ==
    /\ r.location = q.location
    /\ r.scale = q.scale
    /\ \A c \in DOMAIN r.children :
           /\ r.children[c].energy = q.children[c].energy
           /\ r.children[c].size = q.children[c].size

ResolutionOf(r) == <<r.resolution_x, r.resolution_y>>

InRange(px) == 1 <= px /\ px <= MAX_RESOLUTION

\* the group reaches the resolution step of an operator: it has a mesh and passes
\* the dimension validation
ReachesResolution(objects) ==
    /\ get_primary_object(objects) # None
    /\ validate_collection_dimensions(objects, scale_length)[1]

\* the resolution the operator computes for the group
GroupResolution(objects) ==
    LET dims == get_collection_dimensions(objects, scale_length)
    IN  calculate_resolution(dims[1], dims[2], props.scale_factor, props.padding_px)

\* in this step a rejected resolution is not written and an accepted one above
\* 8192 is written
WritesIfAccepted(res) ==
    /\ ~validate_resolution(res[1], res[2])[1] => ResolutionOf(render') = ResolutionOf(render)
    /\ (/\ InRange(res[1]) /\ InRange(res[2])
        /\ (res[1] > 8192 \/ res[2] > 8192)) => ResolutionOf(render') = res

EvalGroup == get_target_collection(collections, active_object, props.collection_prefix)

\* C10: whenever Eval or Render All writes a resolution into the render settings both
\* axes are within 1..16384; a resolution validate_resolution rejects is never
\* written, and one above 8192 (a warning only) is still written.
C10_WrittenResolutionsValidated ==
    [][/\ ResolutionOf(render') # ResolutionOf(render) =>
              InRange(render'.resolution_x) /\ InRange(render'.resolution_y)
       /\ (Eval /\ EvalGroup # None) =>
              (ReachesResolution(CollObjects(collections, EvalGroup)) =>
                   WritesIfAccepted(GroupResolution(CollObjects(collections, EvalGroup))))
       /\ RenderAllGroup =>
              (ReachesResolution(CollObjects(collections, batch.collections[batch.i])) =>
                   WritesIfAccepted(
                       GroupResolution(CollObjects(collections,
                                                   batch.collections[batch.i]))))]_vars

\* Eval has written 10020 x 5020 and reported the warning
C10_Witness ==
    /\ result.op = "eval" /\ result.ret = "FINISHED"
    /\ reports[1] = <<"WARNING", "warning_large_resolution">>
    /\ render.resolution_x > 8192
    /\ render.resolution_y = 5020

SolverFns == {"calculate_camera_position", "scale_light_rig_for_collection"}

\* before the k-th call of the log both validators accepted the collection it is for
ValidatedBefore(k) ==
    /\ \E i \in 1..(k - 1) :
          calls[i] = CallOf("validate_collection_dimensions", calls[k].collection, TRUE)
    /\ \E j \in 1..(k - 1) :
          calls[j] = CallOf("validate_resolution", calls[k].collection, TRUE)

\* the width and the height of the collection are positive and its output height is
\* not 0 pixels
SolverInputSound(objects) ==
    /\ get_collection_dimensions(objects, scale_length)[1] > 0
    /\ get_collection_dimensions(objects, scale_length)[2] > 0
    /\ ResolutionOfDims(get_collection_dimensions(objects, scale_length),
                        props.scale_factor, props.padding_px)[2] # 0

\* C20: on every call path (Eval, Render Active, Render All, the panel's
\* selected-collection info) calculate_camera_position and
\* scale_light_rig_for_collection are called for a collection only after
\* validate_collection_dimensions and validate_resolution accepted it, so never with
\* a width or height that is not positive or with an output height of 0 pixels.
C20_SolverOnlyAfterValidation ==
    \A k \in 1..Len(calls) :
        calls[k].fn \in SolverFns =>
            /\ ValidatedBefore(k)
            /\ SolverInputSound(CollObjects(collections, calls[k].collection))

\* the same for the operators alone, the panel left aside
OperatorsValidateFirst ==
    result.op # "select_collection" =>
        \A k \in 1..Len(calls) :
            calls[k].fn \in SolverFns =>
                /\ ValidatedBefore(k)
                /\ SolverInputSound(CollObjects(collections, calls[k].collection))

\* the panel has been drawn for a selected flat plane with no padding: the solver
\* was called without any validation and raised
C20_Witness ==
    /\ result.op = "select_collection"
    /\ props.padding_px = 0
    /\ get_collection_dimensions(CollObjects(collections, props.selected_collection),
                                 scale_length)[2] = 0
    /\ calls = <<CallOf("calculate_camera_position", props.selected_collection, FALSE)>>
    /\ obj_info.status = "raised"

BatchRunning == batch # Missing

\* how many collections the loop has counted
Counted(b) == b.successful + b.failed + b.skipped

\* the collection fails one of the checks made before the renderer
FailsChecks(objects) ==
    \/ get_primary_object(objects) = None
    \/ ~validate_collection_dimensions(objects, scale_length)[1]
    \/ ~validate_resolution(GroupResolution(objects)[1], GroupResolution(objects)[2])[1]

\* C21: Render All handles every matched collection exactly once and in list order:
\* each pass of the loop is for collection number i of the list, counts it in exactly
\* one of successful, failed and skipped, and moves on to number i + 1; a collection
\* without mesh, with rejected dimensions or resolution, or whose render raised adds
\* one to failed and the loop goes on; when the operator finishes normally
\* successful + failed + skipped is the number of matched collections.
C21_BatchCountsEveryGroupOnce ==
    /\ [](BatchRunning =>
            /\ batch.i \in 1..(Len(batch.collections) + 1)
            /\ Counted(batch) = batch.i - 1
            /\ Len(batch.errors) = batch.failed)
    /\ [][(RenderAllGroup /\ result'.ret = "RUNNING") =>
            /\ batch'.collections = batch.collections
            /\ batch'.i = batch.i + 1
            /\ Counted(batch') = Counted(batch) + 1
            /\ batch'.successful >= batch.successful
            /\ batch'.failed >= batch.failed
            /\ batch'.skipped >= batch.skipped
            /\ FailsChecks(CollObjects(collections, batch.collections[batch.i])) =>
                  /\ batch'.failed = batch.failed + 1
                  /\ batch'.errors[batch'.failed][1] = batch.collections[batch.i]
                  /\ files' = files
            /\ batch'.failed = batch.failed + 1 =>
                  batch'.errors[batch'.failed][1] = batch.collections[batch.i]]_addon_vars
    /\ [][RenderAllEnd =>
            /\ result'.ret = "FINISHED"
            /\ result'.counts[1] + result'.counts[2] + result'.counts[3]
                 = Len(batch.collections)
            /\ result'.counts = <<batch.successful, batch.failed, batch.skipped>>]_addon_vars

\* the first collection of the list has failed and the second has been rendered
C21_Witness ==
    /\ BatchRunning
    /\ batch.i = 3
    /\ batch.failed = 1
    /\ batch.successful = 1
    /\ batch.errors[1][1] = batch.collections[1]
    /\ Cardinality(files) = 1

\* the log has, in this order, an accepting validate_collection_dimensions, an
\* accepting validate_resolution and a returning calculate_camera_position for the
\* collection
PreparedInOrder(log, collection) ==
    \E i, j, k \in 1..Len(log) :
        /\ i < j /\ j < k
        /\ log[i] = CallOf("validate_collection_dimensions", collection, TRUE)
        /\ log[j] = CallOf("validate_resolution", collection, TRUE)
        /\ log[k] = CallOf("calculate_camera_position", collection, TRUE)

SameRig(a, b) ==
    /\ (a = Missing) <=> (b = Missing)
    /\ (a # Missing) => (a = b)

\* the step leaves the scene prepared for the collection: it passes the checks, the
\* calls were made for it in order, and the resolution, the camera frame and the light
\* rig are those of the collection
PreparedFor(collection, objects) ==
    /\ ~FailsChecks(objects)
    /\ PreparedInOrder(calls', collection)
    /\ ResolutionOf(render') = GroupResolution(objects)
    /\ scene_camera' = CameraName
    /\ camera'.location = calculate_camera_position(objects, props.scale_factor,
                                                    props.padding_px, scale_length).location
    /\ camera'.rotation_euler = calculate_camera_position(objects, props.scale_factor,
                                                         props.padding_px,
                                                         scale_length).rotation
    /\ SameRig(rig', setup_lighting_for_collection(rig, objects, scale_length))

\* the collection Render Active names the output file after (operators.py 131-136)
RenderActiveGroup ==
    get_target_collection(collections, SCALE_RENDER_OT_eval.active_object,
                          props.collection_prefix)

\* Render Active reaches bpy.ops.render.render (line 149)
RenderActiveIssues ==
    /\ validate_output_path(props.output_folder)[1]
    /\ SCALE_RENDER_OT_eval.ret = "FINISHED"
    /\ RenderActiveGroup # None
    /\ resolve_output_filepath(
           files,
           Path(validate_output_path(props.output_folder)[3],
                get_output_filename(RenderActiveGroup, props.collection_prefix), 0),
           props.overwrite_mode)[1]

\* a pass of Render All that reaches the renderer has prepared the scene for its
\* collection
RenderAllPreparesGroup ==
    [][(RenderAllGroup /\ RenderAllPrepare.renders /\ result'.ret = "RUNNING") =>
          PreparedFor(batch.collections[batch.i],
                      CollObjects(collections, batch.collections[batch.i]))]_addon_vars

\* C22: the renderer is handed a collection only after, for that same collection and
\* in this order, its dimensions were accepted, its resolution was accepted and
\* written, its camera frame was solved and applied and its lighting was set up, in
\* Render All and in Render Active; no render is issued for a collection that did not
\* pass Eval or the validation.
C22_RenderOnlyAfterPreparation ==
    [][/\ (RenderAllGroup /\ RenderAllPrepare.renders /\ result'.ret = "RUNNING") =>
             PreparedFor(batch.collections[batch.i],
                         CollObjects(collections, batch.collections[batch.i]))
       /\ (RenderActive /\ RenderActiveIssues) =>
             PreparedFor(RenderActiveGroup, CollObjects(collections, RenderActiveGroup))
      ]_addon_vars

\* Render Active has evaluated the collection of the active object, made the light
\* rig, and written the file named after another collection, one with rejected
\* dimensions
C22_Witness ==
    /\ result.op = "render_active" /\ result.ret = "FINISHED"
    /\ reports[Len(reports)] = <<"INFO", "rendered">>
    /\ Len(calls) >= 3
    /\ Len(collections) = 2
    /\ calls[3] = CallOf("calculate_camera_position", collections[2].name, TRUE)
    /\ render.filepath.name = get_output_filename(collections[1].name,
                                                  props.collection_prefix)
    /\ ~validate_collection_dimensions(collections[1].objects, scale_length)[1]

(***************************************************************************)
(* Further properties of the camera solver (SpecCam).                      *)
(***************************************************************************)
\* the bounding box of the group the solver was called for
InBounds == get_collection_bounds(cam_in.objects)

\* the box is present with positive width (X) and height (Z)
PositiveFace ==
    /\ HasEligiblePart(cam_in.objects)
    /\ InBounds.max_corner[1] > InBounds.min_corner[1]
    /\ InBounds.max_corner[3] > InBounds.min_corner[3]

\* (center.x, min.y - d, center.z + d * tan(12 degrees)), 12 degrees being 20944
\* RadUnit steps
PlacedAt(d) ==
    <<RoundDiv(InBounds.max_corner[1] + InBounds.min_corner[1], 2),
      InBounds.min_corner[2] - d,
      RoundDiv(InBounds.max_corner[3] + InBounds.min_corner[3], 2) + MulFP(d, Tan(20944))>>

\* C23: for a present box with positive width and height the returned location is
\* (center.x, min.y - d, center.z + d * tan(12 degrees)) with d > 0 the final camera
\* distance, so the camera is centred on X, strictly in front of the minimum-Y face
\* and strictly above the centre; every pass of the loop tests the corners from the
\* location the same formula gives for the distance of the pass.
C23_CameraPlacement ==
    /\ []((CamDone /\ PositiveFace) =>
            /\ camera_distance > 0
            /\ cam_out.location = PlacedAt(camera_distance)
            /\ cam_out.location[1] * 2 \in {InBounds.min_corner[1] + InBounds.max_corner[1],
                                           InBounds.min_corner[1] + InBounds.max_corner[1] + 1,
                                           InBounds.min_corner[1] + InBounds.max_corner[1] - 1}
            /\ cam_out.location[2] < InBounds.min_corner[2]
            /\ cam_out.location[3] > cam_cx.center[3])
    /\ [][(CamPass /\ PositiveFace) =>
            /\ camera_distance > 0
            /\ all_corners_visible' = VisibleFrom(cam_cx, PlacedAt(camera_distance))
         ]_<<cam_pc, iteration, cam_checks>>

\* the solver has returned for a box whose front face is not at its centre, after at
\* least two passes of the loop
C23_Witness ==
    /\ CamDone
    /\ PositiveFace
    /\ cam_checks >= 2
    /\ InBounds.min_corner[2] < cam_cx.center[2]
    /\ cam_out.location[2] < InBounds.min_corner[2]

\* the solver has computed its locals for a present box
CamFramed == cam_pc \in {"loop", "final", "done"} /\ HasEligiblePart(cam_in.objects)

\* pad ticks are padding_px / scale_factor / 1000 / unit_scale Blender units, to the
\* tick
IsPaddingOf(pad, padding_px, scale_factor, unit_scale) ==
    Abs(pad * (scale_factor * mm_per_meter * unit_scale)
          - padding_px * SfUnit * UsUnit * TickPerBU)
        <= scale_factor * mm_per_meter * unit_scale

\* the corners of the box b with X and Z moved outward by pad
OutwardCorners(b, pad) ==
    {<<x, y, z>> : x \in {b.min_corner[1] - pad, b.max_corner[1] + pad},
                   y \in {b.min_corner[2], b.max_corner[2]},
                   z \in {b.min_corner[3] - pad, b.max_corner[3] + pad}}

CornerSet(corners) == {corners[k] : k \in 1..Len(corners)}

\* C24: the 8 corners the visibility check tests are the corners of the bounding box
\* with X and Z moved outward on both sides by
\* padding_px / scale_factor / 1000 / unit_scale and Y as it is; with no padding they
\* are the corners of the box, and the padded box contains the box.
C24_PaddedCorners ==
    /\ [](CamFramed =>
            \E pad \in 0..(2 * TickPerBU) :
                /\ IsPaddingOf(pad, cam_in.padding_px, cam_in.scale_factor, cam_in.unit_scale)
                /\ Len(cam_cx.bbox_corners) = 8
                /\ CornerSet(cam_cx.bbox_corners) = OutwardCorners(InBounds, pad)
                /\ cam_in.padding_px = 0 =>
                      CornerSet(cam_cx.bbox_corners)
                          = CornerSet(Box(InBounds.min_corner, InBounds.max_corner))
                /\ \A axis \in 1..3 :
                      /\ SetMin(AxisOf(cam_cx.bbox_corners, axis)) <= InBounds.min_corner[axis]
                      /\ SetMax(AxisOf(cam_cx.bbox_corners, axis)) >= InBounds.max_corner[axis])
    /\ [][CamPass =>
            all_corners_visible' = FrameHolds(cam_cx, CamLocation(cam_cx, camera_distance))
         ]_<<cam_pc, iteration, cam_checks>>

\* the locals for a padded box: the corners differ from those of the box on X and Z
C24_Witness ==
    /\ CamFramed
    /\ cam_in.padding_px > 0
    /\ cam_checks >= 1
    /\ SetMin(AxisOf(cam_cx.bbox_corners, 1)) < InBounds.min_corner[1]
    /\ SetMax(AxisOf(cam_cx.bbox_corners, 3)) > InBounds.max_corner[3]
    /\ SetMin(AxisOf(cam_cx.bbox_corners, 2)) = InBounds.min_corner[2]


(***************************************************************************)
(* The solved distance across the scale of a cube (SpecCam)                *)
(***************************************************************************)
\* the run solved a cube centered at the origin
CubeSolved ==
    /\ cam_pc = "done"
    /\ \E side \in CubeSides : cam_in.objects = <<Cube(side)>>

\* the side of the cube of the run
CubeSide == InBounds.max_corner[1] - InBounds.min_corner[1]

\* the camera distance calculate_camera_position solves for a cube, lines 196-265
CubeDistance(side, scale_factor, padding_px) ==
    LET cx == CamSetup(<<Cube(side)>>, scale_factor, padding_px, UsUnit)
    IN  SafetyBuffer(CamLoop(cx, cx.camera_distance, 0))

\* big / small is 2 up to one 1.10 step and the factor 1.05 / 0.98
WithinDoublingBand(small, big) ==
    /\ big * 1155 >= 2 * small * 980
    /\ big * 980 <= 2 * small * 1155

OverwriteModes == {"OVERWRITE", "SKIP", "INCREMENT"}

\* the base paths of the collections of the scene in the output folder
BasePaths ==
    {Path(props.output_folder.path,
          get_output_filename(collections[k].name, props.collection_prefix), 0) :
        k \in 1..Len(collections)}

\* base_NNN for the number n
Numbered(base_path, n) == Path(base_path.dir, base_path.name, n)

\* what resolve_output_filepath is to return for the files fs
FollowsPolicy(fs, base_path, overwrite_mode) ==
    LET r == resolve_output_filepath(fs, base_path, overwrite_mode)
    IN  /\ overwrite_mode = "OVERWRITE" => r = <<TRUE, base_path>>
        /\ overwrite_mode = "SKIP" => (r[1] <=> base_path \notin fs) /\ r[2] = base_path
        /\ overwrite_mode = "INCREMENT" =>
               /\ r[1]
               /\ base_path \notin fs => r[2] = base_path
               /\ base_path \in fs =>
                      \E n \in 1..(Cardinality(fs) + 1) :
                          /\ r[2] = Numbered(base_path, n)
                          /\ Numbered(base_path, n) \notin fs
                          /\ \A m \in 1..(n - 1) : Numbered(base_path, m) \in fs
        /\ overwrite_mode # "OVERWRITE" /\ r[1] => r[2] \notin fs

\* a pass of Render All that rendered a file
RenderAllWrote ==
    /\ RenderAllGroup
    /\ batch' # Missing
    /\ batch'.successful = batch.successful + 1

\* C26: resolve_output_filepath returns (render, base path) in OVERWRITE mode,
\* (do not render) exactly when the base path exists in SKIP mode, and in
\* INCREMENT mode the base path when it does not exist and otherwise base_NNN
\* for the smallest N >= 1 whose file does not exist; in SKIP and INCREMENT
\* modes a path to be rendered is not an existing file, and a pass of Render
\* All writes only a file that did not exist and removes none
C26_OverwritePolicy ==
    /\ [](\A base_path \in BasePaths : \A overwrite_mode \in OverwriteModes :
              FollowsPolicy(files, base_path, overwrite_mode))
    /\ [][RenderAllGroup => files \subseteq files']_addon_vars
    /\ [][RenderAllWrote =>
              /\ files' = files \cup {render'.filepath}
              /\ render'.filepath =
                     resolve_output_filepath(
                         files,
                         Path(batch.output_dir,
                              get_output_filename(batch.collections[batch.i],
                                                  props.collection_prefix), 0),
                         props.overwrite_mode)[2]
              /\ props.overwrite_mode \in {"SKIP", "INCREMENT"} =>
                     render'.filepath \notin files]_addon_vars

\* an INCREMENT pass has written p_001.png next to the p.png and p_002.png that
\* were in the folder
C26_Witness ==
    /\ props.overwrite_mode = "INCREMENT"
    /\ result.op = "render_all"
    /\ result.counts[1] = 1
    /\ render.filepath = Path(props.output_folder.path, <<"p", ".png">>, 1)
    /\ files = {Path(props.output_folder.path, <<"p", ".png">>, n) : n \in 0..2}


(***************************************************************************)
(* Visibility of the collections around a Render All (Spec)                *)
(***************************************************************************)
\* hide_viewport and hide_render of the collection of the given name
FlagsOf(colls, collection) ==
    LET c == colls[CHOOSE k \in 1..Len(colls) : colls[k].name = collection]
    IN  [hide_viewport |-> c.hide_viewport, hide_render |-> c.hide_render]

\* the step starts the loop of Render All
RenderAllStarts == RenderAllBegin /\ batch' # Missing

\* the step ends a Render All that had entered its loop
RenderAllLeaves == batch # Missing /\ batch' = Missing

\* after the step every matched collection has the flags it had when the batch
\* started
FlagsAsAtStart ==
    \A j \in 1..Len(batch.collections) :
        FlagsOf(collections', batch.collections[j])
            = batch.original_states[batch.collections[j]]

\* the batch keeps the flags the matched collections have when it starts, and
\* its list of collections and these flags stay as they are while it runs
KeepsStartFlags ==
    /\ [][RenderAllStarts =>
              /\ collections' = collections
              /\ \A j \in 1..Len(batch'.collections) :
                     batch'.original_states[batch'.collections[j]]
                         = FlagsOf(collections, batch'.collections[j])]_addon_vars
    /\ [][(batch # Missing /\ batch' # Missing) =>
              /\ batch'.collections = batch.collections
              /\ batch'.original_states = batch.original_states]_addon_vars
    /\ [][(RenderAllBegin /\ batch' = Missing) => collections' = collections]_addon_vars

\* C27 as stated: however Render All is left, by its normal end, with failed
\* groups, or by a keyboard interrupt during a group or between groups, every
\* matched collection has the hide_viewport and hide_render it had when the
\* batch started
C27_VisibilityRestored ==
    /\ KeepsStartFlags
    /\ [][RenderAllLeaves => FlagsAsAtStart]_addon_vars

\* the returns of execute restore the flags: the normal end, with or without
\* failed groups, and the KeyboardInterrupt handler of lines 291-297
ReturnsRestoreVisibility ==
    /\ KeepsStartFlags
    /\ [][(RenderAllLeaves /\ result'.ret \in {"FINISHED", "CANCELLED"}) =>
              FlagsAsAtStart]_addon_vars

\* Render All of the collections R_a and R_b, both shown in the viewport at the
\* start, was interrupted after it had rendered R_a: R_b is left hidden
C27_Witness ==
    /\ result.op = "render_all"
    /\ result.ret = "KeyboardInterrupt"
    /\ result.counts = <<1, 0, 0>>
    /\ obj_info = NoInfo("not_drawn")
    /\ Len(collections) = 2
    /\ collections[1].name = <<"R", "_", "a">>
    /\ ~collections[1].hide_viewport
    /\ collections[2].name = <<"R", "_", "b">>
    /\ collections[2].hide_viewport


\* the step is a pass of Render All that hands its group to the renderer
RenderAllInvokesRenderer ==
    /\ RenderAllGroup
    /\ RenderAllPrepare.renders

\* in colls the collection "shown" is visible and every other matched collection
\* is hidden
OnlyShown(colls, shown) ==
    \A j \in 1..Len(batch.collections) :
        FlagsOf(colls, batch.collections[j])
            = [hide_viewport |-> batch.collections[j] # shown,
               hide_render |-> batch.collections[j] # shown]

\* C28: when a pass of Render All invokes the renderer, the collection of the
\* pass has hide_viewport and hide_render false and every other matched
\* collection has both true, whatever the flags were before the pass; the
\* flags are still so when the renderer has written the file or failed
C28_OnlyGroupVisibleAtRender ==
    [][RenderAllInvokesRenderer =>
           /\ OnlyShown(RenderAllPrepare.collections, batch.collections[batch.i])
           /\ batch' # Missing =>
                  OnlyShown(collections', batch.collections[batch.i])]_addon_vars

\* the second collection of a batch has been rendered after the first: R_b, which
\* was hidden from renders, is shown and R_a is hidden
C28_Witness ==
    /\ batch # Missing
    /\ batch.i = 3
    /\ batch.successful = 2
    /\ batch.collections = << <<"R", "_", "a">>, <<"R", "_", "b">> >>
    /\ ~batch.original_states[<<"R", "_", "a">>].hide_viewport
    /\ batch.original_states[<<"R", "_", "b">>].hide_render
    /\ FlagsOf(collections, <<"R", "_", "b">>)
           = [hide_viewport |-> FALSE, hide_render |-> FALSE]
    /\ FlagsOf(collections, <<"R", "_", "a">>)
           = [hide_viewport |-> TRUE, hide_render |-> TRUE]


(***************************************************************************)
(* Repeated scaling of the light rig (SpecLight)                           *)
(***************************************************************************)
\* what scale_light_rig_for_collection sets: the rig's location and scale, and the
\* energy and size of each light
RigScaling(r) ==
    [location |-> r.location, scale |-> r.scale,
     energy |-> <<r.children.Key.energy, r.children.Fill.energy, r.children.Rim.energy>>,
     size |-> <<r.children.Key.size, r.children.Fill.size, r.children.Rim.size>>]

\* the rig a call of scale_light_rig_for_collection leaves from the rig r
ScaleCallLeaves(r, objects) ==
    IF ScaleRigRaises(objects) THEN get_or_create_light_rig(r)
    ELSE scale_light_rig_for_collection(r, objects, scale_length)

\* the call made last was scale_light_rig_for_collection
ScaleCalled == call.fn = "scale_light_rig_for_collection"

\* a second call for the same group changes nothing
ScalingTwiceIsOnce ==
    [][LightScale => ScaleCallLeaves(rig', call'.objects) = rig']_<<rig, call>>

EvalTarget == get_target_collection(collections, active_object, props.collection_prefix)

\* the failures Eval tests for, in the order of lines 31-61, each with its
\* message; the objects are those of the target collection
EvalFailures(objects) ==
    << <<get_primary_object(objects) = None, "no_mesh_objects">>,
       <<~validate_collection_dimensions(objects, scale_length)[1],
         validate_collection_dimensions(objects, scale_length)[2]>>,
       <<~ResolutionCheck(objects)[1], ResolutionCheck(objects)[2]>> >>

\* the message of the first failure of Eval, or None if it has none
FirstFailure ==
    IF EvalTarget = None THEN "no_collections_found"
    ELSE LET failures == EvalFailures(CollObjects(collections, EvalTarget))
         IN  IF \A k \in 1..Len(failures) : ~failures[k][1] THEN None
             ELSE failures[CHOOSE k \in 1..Len(failures) :
                               /\ failures[k][1]
                               /\ \A j \in 1..(k - 1) : ~failures[j][1]][2]

\* C30: Eval returns CANCELLED exactly when there is no target collection, no
\* eligible mesh in it, or its dimensions or its resolution are rejected; it
\* then reports the first of these failures as its one error and leaves the
\* render settings with the resolution, the camera, the scene camera, the light
\* rig and the objects of the scene as they were, so no camera and no rig is made
C30_AbortedEvalChangesNothing ==
    [][Eval =>
           /\ result'.ret = "CANCELLED" <=> FirstFailure # None
           /\ result'.ret = "CANCELLED" =>
                  /\ reports' = << <<"ERROR", FirstFailure>> >>
                  /\ render' = render
                  /\ camera' = camera
                  /\ scene_camera' = scene_camera
                  /\ rig' = rig
                  /\ data_objects' = data_objects
                  /\ collections' = collections
                  /\ active_object' = active_object
                  /\ view_perspective' = view_perspective]_addon_vars

\* an Eval has aborted at the resolution check in a scene where no camera and no
\* rig was ever made
C30_Witness ==
    /\ result.op = "eval"
    /\ result.ret = "CANCELLED"
    /\ reports = << <<"ERROR", "resolution_too_small">> >>
    /\ Len(calls) = 2
    /\ camera = Missing
    /\ scene_camera = None
    /\ rig = Missing
    /\ data_objects = << >>
    /\ render.resolution_x = 1920
    /\ render.resolution_percentage = 50

====
